---- MODULE Spec2Model ----
(***************************************************************************)
(* repochecker: the scheduler loop (main.rs), the per-entry worker, the    *)
(* reload step and the HTTP readers (server.rs), the matrix expansion      *)
(* (config.rs), the orchestrator (repo.rs) and the persistence helpers     *)
(* (utils.rs), as one state machine over the shared snapshot.              *)
(***************************************************************************)
EXTENDS Integers, Sequences, FiniteSets, TLC

(***************************************************************************)
(* Bounds of the model.                                                    *)
(***************************************************************************)
\* number of scheduler cycles explored
MaxCycles == 2
\* last clock value; the clock reads 1 at process start, and a data file
\* written by an earlier run carries the timestamp 0
MaxTime == 3

(***************************************************************************)
(* Option<T>: None is the empty sequence, Some(x) the one-element one.     *)
(***************************************************************************)
NoneOpt == <<>>

Some(x) == <<x>>

IsSome(o) == Len(o) = 1

Unwrap(o) == o[1]

\* HashMap::get(...).cloned() / the value HashMap::remove returns
MapGet(map, key) == IF key \in DOMAIN map THEN Some(map[key]) ELSE NoneOpt

(***************************************************************************)
(* Strings are ordered as Rust orders them (byte-wise); the model only     *)
(* compares the names listed here, given in ascending order.               *)
(***************************************************************************)
StrOrder ==
    <<"aarch64", "bar", "f31", "f32", "foo", "i686", "noarch", "src",
      "x86_64">>

StrRank(s) == CHOOSE i \in 1..Len(StrOrder) : StrOrder[i] = s

\* (&a.source, &a.package, &a.arch).cmp(&(&b.source, &b.package, &b.arch)) is Greater
SortKeyGreater(a, b) ==
    \/ StrRank(a.source) > StrRank(b.source)
    \/ /\ a.source = b.source
       /\ \/ StrRank(a.package) > StrRank(b.package)
          \/ a.package = b.package /\ StrRank(a.arch) > StrRank(b.arch)

\* insertion of x in front of the first element that is not smaller: equal
\* keys end up in reverse order
RECURSIVE InsertBeforeEqual(_, _)
InsertBeforeEqual(s, x) ==
    IF s = <<>> THEN <<x>>
    ELSE IF ~SortKeyGreater(x, Head(s)) THEN <<x>> \o s
    ELSE <<Head(s)>> \o InsertBeforeEqual(Tail(s), x)

\* insertion of x into the sorted sequence s behind every element that is
\* not greater: a stable sort step
RECURSIVE InsertSorted(_, _)
InsertSorted(s, x) ==
    IF s = <<>> THEN <<x>>
    ELSE IF SortKeyGreater(Head(s), x) THEN <<x>> \o s
    ELSE <<Head(s)>> \o InsertSorted(Tail(s), x)

\* all_broken.sort_by(...): slice::sort_by is a stable sort
RECURSIVE SortBroken(_)
SortBroken(s) ==
    IF s = <<>> THEN <<>>
    ELSE InsertSorted(SortBroken(SubSeq(s, 1, Len(s) - 1)), s[Len(s)])

(***************************************************************************)
(* Configuration and matrix expansion (config.rs).                         *)
(***************************************************************************)
RepoConfig ==
    [stable |-> <<"fedora">>, updates |-> <<>>,
     testing |-> <<"updates-testing">>, rawhide |-> <<"rawhide">>]

ArchConfigs ==
    << [name |-> "x86_64", multiarch |-> <<"i686", "x86_64">>],
       [name |-> "aarch64", multiarch |-> <<"aarch64">>] >>

ReleaseF32 ==
    [name |-> "f32", rtype |-> "prerelease", arches |-> <<"x86_64", "aarch64">>,
     archived |-> FALSE]

ReleaseF31 ==
    [name |-> "f31", rtype |-> "prerelease", arches |-> <<"aarch64">>,
     archived |-> TRUE]

\* the configuration file at startup
ConfigA ==
    [repos |-> RepoConfig, arches |-> ArchConfigs,
     releases |-> <<ReleaseF32, ReleaseF31>>]

\* an edited configuration file: the archived release was dropped
ConfigB ==
    [repos |-> RepoConfig, arches |-> ArchConfigs,
     releases |-> <<ReleaseF32>>]

\* an edited configuration file that parses, but whose release lists an arch
\* without an [[arch]] entry
ConfigBad ==
    [repos |-> RepoConfig, arches |-> ArchConfigs,
     releases |-> <<[name |-> "f32", rtype |-> "prerelease",
                     arches |-> <<"x86_64", "s390x">>, archived |-> FALSE]>>]

\* Result<T, String>
Ok(v) == [ok |-> TRUE, val |-> v]

Err(msg) == [ok |-> FALSE, val |-> msg]

\* the testing entry checks every repository it enables
ReleaseReposCheckAll(cfg, rtype) ==
    CASE rtype = "rawhide" ->
           << [repos |-> cfg.repos.rawhide, check |-> cfg.repos.rawhide,
               with_testing |-> FALSE] >>
      [] rtype = "prerelease" ->
           << [repos |-> cfg.repos.stable, check |-> cfg.repos.stable,
               with_testing |-> FALSE] >>
      [] rtype = "stable" ->
           << [repos |-> cfg.repos.stable \o cfg.repos.updates,
               check |-> cfg.repos.stable \o cfg.repos.updates,
               with_testing |-> FALSE],
              [repos |-> cfg.repos.stable \o cfg.repos.updates \o cfg.repos.testing,
               check |-> cfg.repos.stable \o cfg.repos.updates \o cfg.repos.testing,
               with_testing |-> TRUE] >>

\* the Repos a release type expands to
ReleaseRepos(cfg, rtype) ==
    CASE rtype = "rawhide" ->
           << [repos |-> cfg.repos.rawhide, check |-> cfg.repos.rawhide,
               with_testing |-> FALSE] >>
      [] rtype = "prerelease" ->
           << [repos |-> cfg.repos.stable, check |-> cfg.repos.stable,
               with_testing |-> FALSE] >>
      [] rtype = "stable" ->
           << [repos |-> cfg.repos.stable \o cfg.repos.updates,
               check |-> cfg.repos.stable \o cfg.repos.updates,
               with_testing |-> FALSE],
              [repos |-> cfg.repos.stable \o cfg.repos.updates \o cfg.repos.testing,
               check |-> cfg.repos.testing,
               with_testing |-> TRUE] >>

\* the arch_config entries whose name is arch
ArchMatches(cfg, arch) ==
    {i \in 1..Len(cfg.arches) : cfg.arches[i].name = arch}

\* the last arch_config with that name wins
MultiArchOf(cfg, arch) ==
    LET m == ArchMatches(cfg, arch)
    IN  cfg.arches[CHOOSE i \in m : \A j \in m : j <= i].multiarch

\* the first arch of the release that has no arch_config, or 0
FirstMissingArch(cfg, release) ==
    LET bad == {i \in 1..Len(release.arches) :
                    ArchMatches(cfg, release.arches[i]) = {}}
    IN  IF bad = {} THEN 0 ELSE CHOOSE i \in bad : \A j \in bad : i <= j

ReleaseEntries(cfg, release) ==
    LET rr == ReleaseRepos(cfg, release.rtype)
    IN  [i \in 1..Len(rr) |->
            [release |-> release.name,
             arches |-> [a \in 1..Len(release.arches) |->
                            [name |-> release.arches[a],
                             multi_arch |-> MultiArchOf(cfg, release.arches[a])]],
             repos |-> rr[i].repos,
             check |-> rr[i].check,
             with_testing |-> rr[i].with_testing,
             archived |-> release.archived]]

RECURSIVE ToMatrixFrom(_, _, _)
ToMatrixFrom(cfg, r, matrix) ==
    IF r > Len(cfg.releases) THEN Ok(matrix)
    ELSE LET release == cfg.releases[r]
             missing == FirstMissingArch(cfg, release)
         IN  IF missing # 0
             THEN Err(<<release.name, release.arches[missing]>>)
             ELSE ToMatrixFrom(cfg, r + 1, matrix \o ReleaseEntries(cfg, release))

\* the releases whose arches all resolve are expanded, the others left out
ToMatrixPartial(cfg) ==
    ToMatrixFrom([cfg EXCEPT !.releases =
                      SelectSeq(@, LAMBDA r : FirstMissingArch(cfg, r) = 0)],
                 1, <<>>)

\* Config::to_matrix
ToMatrix(cfg) == ToMatrixFrom(cfg, 1, <<>>)

(***************************************************************************)
(* Keys and paths.                                                         *)
(***************************************************************************)
\* worker: let pretty = format!("{}{}", &entry.release, suffix)
Pretty(entry) ==
    entry.release \o (IF ~entry.with_testing THEN "" ELSE "-testing")

\* get_json_path, below the data directory
JsonPath(release, testing) ==
    "data/" \o (IF ~testing THEN release \o ".json" ELSE release \o "-testing.json")

\* get_cache_path, below the working directory
CachePath(release, arch) == "cache/" \o release \o "/" \o arch

\* the scratch directories the orchestrator uses for a matrix entry
ScratchDirs(entry) ==
    {CachePath(entry.release, entry.arches[a].name) : a \in 1..Len(entry.arches)}

(***************************************************************************)
(* The override engine (overrides.rs).  OverrideValues is a map            *)
(* release -> arch -> broken capability -> OverrideEntry.                  *)
(***************************************************************************)
\* OverrideEntry::All(String): the sentinel, every package is overridden
AllEntry == [all |-> TRUE, packages |-> <<>>]

\* OverrideEntry::Packages(Vec<String>)
Packages(v) == [all |-> FALSE, packages |-> v]

\* format!("{}/{}/{}/{}", release, arch, broken, package)
OpathToStr(release, arch, broken, package) ==
    release \o "/" \o arch \o "/" \o broken \o "/" \o package

\* the keys load_from_disk inserts for one entry of the tree
EntryPaths(release, arch, broken, bos) ==
    IF bos.all
    THEN {OpathToStr(release, arch, broken, "all")}
    ELSE {OpathToStr(release, arch, broken, bos.packages[i]) :
            i \in DOMAIN bos.packages}

\* the three nested loops of load_from_disk
SeedPaths(data) ==
    UNION { UNION { UNION { EntryPaths(release, arch, broken,
                                       data[release][arch][broken]) :
                              broken \in DOMAIN data[release][arch] } :
                      arch \in DOMAIN data[release] } :
              release \in DOMAIN data }

\* Overrides::load_from_disk, from the parsed file on: every override path
\* starts with a usage count of 0
LoadFromDisk(data) == [data |-> data, stats |-> [p \in SeedPaths(data) |-> 0]]

\* the six `match ... .get(..) { Some(x) => x, None => return false }`
\* that open lookup, in their order: data["all"], all["all"], all[arch],
\* data[release], release["all"], release[arch]
Branch(data, outer, inner) ==
    LET o == MapGet(data, outer)
    IN  IF IsSome(o) THEN MapGet(Unwrap(o), inner) ELSE NoneOpt

\* only the tables of the release are required
BranchesPresentReleaseOnly(data, release, arch) ==
    /\ IsSome(MapGet(data, release))
    /\ IsSome(Branch(data, release, "all"))
    /\ IsSome(Branch(data, release, arch))

BranchesPresent(data, release, arch) ==
    /\ IsSome(MapGet(data, "all"))
    /\ IsSome(Branch(data, "all", "all"))
    /\ IsSome(Branch(data, "all", arch))
    /\ IsSome(MapGet(data, release))
    /\ IsSome(Branch(data, release, "all"))
    /\ IsSome(Branch(data, release, arch))

\* `OverrideEntry::All(_) => true, OverrideEntry::Packages(packages) =>
\* packages.contains(&package.to_string())`
EntryMatches(entry, package) ==
    entry.all \/ \E i \in DOMAIN entry.packages : entry.packages[i] = package

\* `if let Some(entry) = table.get(broken)` and the entry matches
TableMatches(table, package, broken) ==
    /\ IsSome(table)
    /\ broken \in DOMAIN Unwrap(table)
    /\ EntryMatches(Unwrap(table)[broken], package)

\* the four tables in the order lookup consults them
LookupOrder(release, arch) ==
    << <<release, arch>>, <<release, "all">>, <<"all", arch>>,
       <<"all", "all">> >>

\* the count is written as 1 whatever it was: an increment made in between
\* is lost
StatsHitOverwrites(stats, path) == (path :> 1) @@ stats

\* only the paths seeded at load time are counted
StatsHitKnownOnly(stats, path) ==
    IF path \in DOMAIN stats
    THEN [stats EXCEPT ![path] = @ + 1]
    ELSE stats

\* `self.stats.entry(path).and_modify(|c| *c += 1).or_insert_with(|| 1)`;
\* the counts of the model stay far below the range of a u32
StatsHit(stats, path) ==
    IF path \in DOMAIN stats
    THEN [stats EXCEPT ![path] = @ + 1]
    ELSE (path :> 1) @@ stats

\* Overrides::lookup: the value it returns and the engine it leaves
Lookup(ov, release, arch, package, broken) ==
    IF ~BranchesPresent(ov.data, release, arch)
    THEN [found |-> FALSE, ov |-> ov]
    ELSE LET order == LookupOrder(release, arch)
             hit == {i \in 1..4 :
                        TableMatches(Branch(ov.data, order[i][1], order[i][2]),
                                     package, broken)}
         IN  IF hit = {}
             THEN [found |-> FALSE, ov |-> ov]
             ELSE LET first == CHOOSE i \in hit : \A j \in hit : i <= j
                      path == OpathToStr(order[first][1], order[first][2],
                                         broken, package)
                  IN  [found |-> TRUE,
                       ov |-> [ov EXCEPT !.stats = StatsHit(ov.stats, path)]]

(***************************************************************************)
(* Broken items, and what the external tool can report.                    *)
(***************************************************************************)
\* state_to_dep: the record of one `package:` block; `since` starts unset
BrokenItem(package, arch, repo, repo_arch) ==
    [source |-> package, package |-> package, arch |-> arch, repo |-> repo,
     repo_arch |-> repo_arch, broken |-> <<"libfoo">>, since |-> NoneOpt]

\* the repositories of the model: package foo of f32's fedora repository
\* is the one package whose dependencies can be broken
CanBreak(release, arch, check) ==
    release = "f32" /\ arch.name = "x86_64" /\ check = "fedora"

\* the closure check of one (release, arch, check repository): either
\* nothing is broken, or foo is broken in every multi-arch flavour
ClosureOutputs(release, arch, check) ==
    { <<>> } \cup
    IF CanBreak(release, arch, check)
    THEN { [i \in 1..Len(arch.multi_arch) |->
              BrokenItem("foo", arch.multi_arch[i], check, arch.name)] }
    ELSE {}

\* get_repo_closure_arched: the closure outputs of every check repository,
\* concatenated in the order of `check`
RECURSIVE ArchOutputsFrom(_, _, _, _)
ArchOutputsFrom(release, arch, check, c) ==
    IF c > Len(check) THEN { <<>> }
    ELSE { first \o rest :
             first \in ClosureOutputs(release, arch, check[c]),
             rest \in ArchOutputsFrom(release, arch, check, c + 1) }

\* what one arch of the third loop of get_repo_closure can come to: an
\* error of make_cache, get_repo_contents or the closure check, or records
ArchResults(release, arch, check) ==
    { Err("dnf exited with an error code.") } \cup
    { Ok(broken) : broken \in ArchOutputsFrom(release, arch, check, 1) }

\* the results of the arches of an entry, one per arch
RECURSIVE EntryResultsFrom(_, _)
EntryResultsFrom(entry, a) ==
    IF a > Len(entry.arches) THEN { <<>> }
    ELSE { <<first>> \o rest :
             first \in ArchResults(entry.release, entry.arches[a], entry.check),
             rest \in EntryResultsFrom(entry, a + 1) }

EntryResults(entry) == EntryResultsFrom(entry, 1)

\* a Package of a content listing (parse_repoquery)
Package(name, source_name, arch) ==
    [name |-> name, source_name |-> source_name, arch |-> arch]

\* get_repo_contents in the repositories of the running service: foo is
\* built on every arch
RepoContents(release, arch) ==
    << Package("foo", "foo", "src"), Package("foo", "foo", arch.name) >>

EntryContents(entry) ==
    [a \in DOMAIN entry.arches |-> RepoContents(entry.release, entry.arches[a])]

\* `built`: the source names of the packages of a listing that are not src
Built(packages) ==
    {packages[i].source_name :
        i \in {j \in DOMAIN packages : packages[j].arch # "src"}}

\* `all_packages`: what is built on some arch of the entry
AllPackages(contents) == UNION {Built(contents[a]) : a \in DOMAIN contents}

\* nothing is excluded
ArchExcludedNothing(contents, a) == {}

\* excluded[arch]: the sources built somewhere, but not on this arch
ArchExcluded(contents, a) ==
    {package \in AllPackages(contents) : package \notin Built(contents[a])}

\* broken.retain(|item| !(item.arch == "src" &&
\*                        arch_excluded.contains(&item.source.as_str())))
RetainBuilt(broken, arch_excluded) ==
    SelectSeq(broken,
              LAMBDA item : ~(item.arch = "src" /\ item.source \in arch_excluded))

\* the loop with `break` for `?`: the arches before the failing one count
RECURSIVE ClosureLoopPartial(_, _, _, _)
ClosureLoopPartial(results, contents, a, all_broken) ==
    IF a > Len(results) THEN Ok(all_broken)
    ELSE IF ~results[a].ok THEN Ok(all_broken)
    ELSE ClosureLoopPartial(results, contents, a + 1,
             all_broken \o RetainBuilt(results[a].val, ArchExcluded(contents, a)))

\* the loop `for arch in arches` of get_repo_closure: `?` returns the first
\* error, otherwise the records that pass the exclusion filter are appended
RECURSIVE ClosureLoop(_, _, _, _)
ClosureLoop(results, contents, a, all_broken) ==
    IF a > Len(results) THEN Ok(all_broken)
    ELSE IF ~results[a].ok THEN results[a]
    ELSE ClosureLoop(results, contents, a + 1,
             all_broken \o RetainBuilt(results[a].val, ArchExcluded(contents, a)))

\* is_overridden(overrides, release, arch, package, broken): the answer of
\* the engine's lookup; the orchestrator holds the engine by shared
\* reference, its counters are not part of what get_repo_closure returns
IsOverridden(ov, release, arch, package, broken) ==
    Lookup(ov, release, arch, package, broken).found

\* item.broken.retain(|broken| !is_overridden(overrides, release, &arch,
\* &package, broken)) with arch = item.repo_arch, package = item.package
RetainNotOverridden(ov, release, item) ==
    [item EXCEPT !.broken =
        SelectSeq(@, LAMBDA broken :
                        ~IsOverridden(ov, release, item.repo_arch,
                                      item.package, broken))]

\* the records are kept whatever is left of their lists
KeepEmpty(all_broken) == all_broken

\* all_broken.retain(|item| !item.broken.is_empty())
DropEmpty(all_broken) == SelectSeq(all_broken, LAMBDA item : item.broken # <<>>)

\* get_repo_closure up to the sort: the per-arch loop, the override filter
\* and the removal of the records left without a capability
FilteredBroken(release, contents, results, ov) ==
    LET all_broken == ClosureLoop(results, contents, 1, <<>>)
    IN  IF all_broken.ok
        THEN Ok(DropEmpty([i \in DOMAIN all_broken.val |->
                             RetainNotOverridden(ov, release, all_broken.val[i])]))
        ELSE all_broken

\* get_repo_closure
GetRepoClosure(release, contents, results, ov) ==
    LET all_broken == FilteredBroken(release, contents, results, ov)
    IN  IF all_broken.ok THEN Ok(SortBroken(all_broken.val)) ELSE all_broken

\* matches(old, new) in worker
Matches(old, new) ==
    old.package = new.package /\ old.repo = new.repo /\ old.repo_arch = new.repo_arch

\* the first old record that matches the new one, or 0
FirstMatch(old_broken, new) ==
    LET m == {j \in 1..Len(old_broken) : Matches(old_broken[j], new)}
    IN  IF m = {} THEN 0 ELSE CHOOSE j \in m : \A k \in m : j <= k

\* the loop over new_broken in worker: the first matching old record gives
\* its `since`; a record whose `since` is still unset gets Utc::now(), which
\* is read once per such record (reads[i] is the clock at iteration i)
Continuity(old_broken, new_broken, reads) ==
    [i \in 1..Len(new_broken) |->
        LET j == FirstMatch(old_broken, new_broken[i])
            carried == IF j = 0 THEN new_broken[i].since ELSE old_broken[j].since
        IN  [new_broken[i] EXCEPT
                !.since = IF IsSome(carried) THEN carried ELSE Some(reads[i])]]

\* `if let Some(old_broken) = old_broken { ... }`: the loop runs only when the
\* key had an array
SetSince(old_opt, new_broken, reads) ==
    IF IsSome(old_opt) THEN Continuity(Unwrap(old_opt), new_broken, reads)
    ELSE new_broken

(***************************************************************************)
(* Persistence (utils.rs).  A file is [ok, data]: ok is FALSE for a file   *)
(* that does not deserialize.                                              *)
(***************************************************************************)
JsonFile(broken) == [ok |-> TRUE, data |-> broken]

CorruptFile == [ok |-> FALSE, data |-> <<>>]

\* every file is reported as not generated yet
ReadJsonNeverLoads(files, path) == Err("Data has not been generated yet.")

\* read_json_from_file
ReadJsonFromFile(files, path) ==
    IF path \notin DOMAIN files THEN Err("Data has not been generated yet.")
    ELSE IF ~files[path].ok THEN Err("Failed to deserialize cached JSON data.")
    ELSE Ok(files[path].data)

(***************************************************************************)
(* What the environment offers to the reload step.                         *)
(***************************************************************************)
\* the override list, the administrators and the maintainers as the program
\* finds them when it starts, and as they are once they have been edited
StartOverrides ==
    LoadFromDisk(
        [all |-> [all |-> <<>>, x86_64 |-> <<>>, aarch64 |-> <<>>],
         f32 |-> [all |-> <<>>, x86_64 |-> <<>>, aarch64 |-> <<>>]])
EditedOverrides ==
    LoadFromDisk(
        [all |-> [all |-> [libbar |-> AllEntry], x86_64 |-> <<>>,
                  aarch64 |-> <<>>],
         f32 |-> [all |-> <<>>, x86_64 |-> <<>>, aarch64 |-> <<>>]])
StartAdmins == [foo |-> "alice"]
EditedAdmins == [foo |-> "bob"]
StartMaintainers == [foo |-> <<"carol">>]
EditedMaintainers == [foo |-> <<>>]

\* the keys HTTP clients ask for
ReadKeys == {"f32"}

\* data files left by an earlier run of the program: a first generation of
\* f32 (no `since`), a later generation of f31
DiskF32 ==
    [i \in 1..2 |-> BrokenItem("foo", <<"i686", "x86_64">>[i], "fedora", "x86_64")]

DiskF31 ==
    << [BrokenItem("foo", "aarch64", "fedora", "aarch64") EXCEPT !.since = Some(0)] >>

\* a first start (no data directory), or a restart
InitDisks ==
    { <<>>,
      (JsonPath("f32", FALSE) :> JsonFile(DiskF32))
         @@ (JsonPath("f31", FALSE) :> JsonFile(DiskF31)) }

(***************************************************************************)
(* State.                                                                  *)
(***************************************************************************)
VARIABLES
    now,          \* the wall clock (Utc::now)
    cycle,        \* the iteration of the scheduler loop
    schedPc,      \* where main is in its loop
    exit,         \* why main returned, "" while it runs
    schedIdx,     \* the matrix entry the handles iterator is at
    matrix,       \* the matrix of the current cycle
    config, overrides, admins, maintainers, values,   \* State
    lockWriter,   \* the worker holding the write guard of GlobalState, or 0
    poisoned,     \* a task panicked while holding the write guard
    disk,         \* the data files
    dataDir,      \* the data directory exists
    wk,           \* the worker tasks of the current cycle, by matrix index
    wt,           \* the reload tasks, by the cycle that spawned them: the
                  \* load each is at (1..4), 0 not spawned, 5 returned,
                  \* 6 panicked
    loadResult,   \* how the latest load of a reload task ended
    rd,           \* the key of the pending GET /data/<key>, or ""
    sawGap,       \* a reader found a key absent that had been published
    published,    \* the keys that ever had an array, and where the first
                  \* one came from: "cache" or "generated"
    call          \* the function application under examination: its
                  \* arguments and its result; NoCall in the running service

vars ==
    <<now, cycle, schedPc, exit, schedIdx, matrix, config, overrides, admins,
      maintainers, values, lockWriter, poisoned, disk, dataDir, wk, wt,
      loadResult, rd, sawGap, published, call>>

schedVars == <<cycle, schedPc, exit, schedIdx, matrix>>

stateVars == <<config, overrides, admins, maintainers, values>>

readerVars == <<rd, sawGap>>

IdleWorker ==
    [pc |-> "idle", out |-> "", failed |-> FALSE, old |-> NoneOpt,
     new |-> <<>>]

watcherVars == <<wt, loadResult>>

\* no function is being examined
NoCall == <<>>

Init ==
    /\ now = 1
    /\ cycle = 1
    /\ schedPc = "loop"
    /\ exit = ""
    /\ schedIdx = 0
    /\ matrix = <<>>
    /\ config = ConfigA
    /\ overrides = StartOverrides
    /\ admins = StartAdmins
    /\ maintainers = StartMaintainers
    /\ values = <<>>
    /\ lockWriter = 0
    /\ poisoned = FALSE
    /\ disk \in InitDisks
    /\ dataDir = (disk # <<>>)
    /\ wk = <<>>
    /\ wt = [c \in 1..MaxCycles |-> 0]
    /\ loadResult = ""
    /\ rd = ""
    /\ sawGap = FALSE
    /\ published = <<>>
    /\ call = NoCall

\* the process runs until main returns
Alive == schedPc # "exited"

(***************************************************************************)
(* The snapshot lock.  Read sections hold no await and are single steps;   *)
(* the worker's publish section is several steps under the write guard.    *)
(***************************************************************************)
\* state.read() / state.write() return once no writer holds the lock
LockFree == lockWriter = 0

\* the guard is a temporary, dropped at the end of the statement
WriteGuardDropped(w) == 0

\* `let mut guard = state.write()...`: the guard lives to the end of the block
WriteGuard(w) == w

\* the map is replaced by one that has this key only
MapInsertAlone(map, key, val) == (key :> val)

\* HashMap::insert
MapInsert(map, key, val) == (key :> val) @@ map

\* HashMap::remove, the map that is left
MapRemove(map, key) == [k \in DOMAIN map \ {key} |-> map[k]]

\* the record of a key's first array
FirstArray(pub, key, origin) ==
    IF key \in DOMAIN pub THEN pub ELSE (key :> origin) @@ pub

(***************************************************************************)
(* The scheduler: the loop of main.                                        *)
(***************************************************************************)
\* main returns (an Err through `?`, or a panic): the runtime is dropped and
\* the process ends
MainReturns(reason) ==
    /\ schedPc' = "exited"
    /\ exit' = reason
    /\ UNCHANGED <<cycle, schedIdx, matrix>>

\* tokio::spawn(watcher(state.clone()))
SchedSpawnWatcher ==
    /\ Alive
    /\ schedPc = "loop"
    /\ wt' = [wt EXCEPT ![cycle] = 1]
    /\ schedPc' = "snapshot"
    /\ UNCHANGED <<now, cycle, exit, schedIdx, matrix, stateVars, lockWriter,
                   poisoned, disk, dataDir, wk, loadResult, readerVars, call,
                   published>>

\* the config is cloned under the lock and expanded; `?` returns its error
SchedSnapshot ==
    /\ Alive
    /\ schedPc = "snapshot"
    /\ LockFree
    /\ IF poisoned
       THEN MainReturns("poisoned") /\ UNCHANGED wk
       ELSE LET m == ToMatrix(config)
            IN  IF ~m.ok
                THEN MainReturns("matrix_error") /\ UNCHANGED wk
                ELSE /\ matrix' = m.val
                     /\ wk' = [i \in 1..Len(m.val) |-> IdleWorker]
                     /\ schedIdx' = 1
                     /\ schedPc' = IF Len(m.val) = 0 THEN "sleep" ELSE "spawn"
                     /\ UNCHANGED <<cycle, exit>>
    /\ UNCHANGED <<now, stateVars, lockWriter, poisoned, disk, dataDir, watcherVars,
                   readerVars, published, call>>

\* `handles` is a lazy iterator (Iterator::map): the for loop pulls one
\* handle, which spawns that entry's worker, and awaits it before it pulls
\* the next
SchedSpawnWorker ==
    /\ Alive
    /\ schedPc = "spawn"
    /\ wk' = [wk EXCEPT ![schedIdx].pc = "start"]
    /\ schedPc' = "await"
    /\ UNCHANGED <<now, cycle, exit, schedIdx, matrix, stateVars, lockWriter,
                   poisoned, disk, dataDir, watcherVars, readerVars, published, call>>

\* the handle is dropped instead of awaited
JoinHandleReadyNoWait(w) == TRUE

\* a JoinHandle resolves when its task has returned or panicked
JoinHandleReady(w) == w.pc \in {"done", "panicked"}

\* the JoinHandle yields Err(JoinError) for a task that panicked
JoinIsErr(w) == w.pc = "panicked"

\* handle.await.map_err(|error| error.to_string())?
SchedAwait ==
    /\ Alive
    /\ schedPc = "await"
    /\ JoinHandleReady(wk[schedIdx])
    /\ IF JoinIsErr(wk[schedIdx])
       THEN MainReturns("join_error")
       ELSE /\ schedIdx' = schedIdx + 1
            /\ schedPc' = IF schedIdx < Len(matrix) THEN "spawn" ELSE "sleep"
            /\ UNCHANGED <<cycle, exit, matrix>>
    /\ UNCHANGED <<now, stateVars, lockWriter, poisoned, disk, dataDir, wk, watcherVars,
                   readerVars, published, call>>

\* tokio::spawn(delay_for(...)).await, then the next iteration of the loop;
\* the twelve hours of the sleep outlast the reload of the cycle
SchedSleep ==
    /\ Alive
    /\ schedPc = "sleep"
    /\ wt[cycle] \notin 1..4
    /\ cycle < MaxCycles
    /\ now < MaxTime
    /\ now' = now + 1
    /\ cycle' = cycle + 1
    /\ schedPc' = "loop"
    /\ UNCHANGED <<exit, schedIdx, matrix, stateVars, lockWriter, poisoned,
                   disk, dataDir, wk, watcherVars, readerVars, published, call>>

(***************************************************************************)
(* The worker of one matrix entry (server.rs).                             *)
(***************************************************************************)
workerFrame ==
    <<cycle, schedPc, exit, schedIdx, matrix, wt, loadResult, rd, sawGap, call>>

\* .expect("Found a poisoned lock.") panics the task; it holds no guard then
WorkerPanics(w) ==
    /\ wk' = [wk EXCEPT ![w] = [IdleWorker EXCEPT !.pc = "panicked"]]
    /\ UNCHANGED <<now, stateVars, lockWriter, poisoned, disk, dataDir, published>>

\* the task returns
WorkerDone(w, outcome) ==
    wk' = [wk EXCEPT ![w] = [IdleWorker EXCEPT !.pc = "done", !.out = outcome]]

\* let previous = state.values.contains_key(&pretty), under the read lock
WorkerCheckPrevious(w) ==
    /\ Alive
    /\ wk[w].pc = "start"
    /\ LockFree
    /\ IF poisoned
       THEN WorkerPanics(w)
       ELSE /\ wk' = [wk EXCEPT ![w].pc =
                        IF Pretty(matrix[w]) \in DOMAIN values
                        THEN "generate" ELSE "cache"]
            /\ UNCHANGED <<now, stateVars, lockWriter, poisoned, disk, dataDir,
                           published>>
    /\ UNCHANGED workerFrame

\* an archived entry whose cached data loaded returns before generation
ReturnsAfterCache(entry) == entry.archived

\* `if !previous`: the data file is read and, if it loads, inserted under
\* the write lock
WorkerLoadCache(w) ==
    LET entry == matrix[w]
        cached == ReadJsonFromFile(disk, JsonPath(entry.release, entry.with_testing))
    IN  /\ Alive
        /\ wk[w].pc = "cache"
        /\ IF ~cached.ok
           THEN /\ wk' = [wk EXCEPT ![w].pc = "generate"]
                /\ UNCHANGED <<now, stateVars, lockWriter, poisoned, disk,
                               dataDir, published>>
           ELSE /\ LockFree
                /\ IF poisoned
                   THEN WorkerPanics(w)
                   ELSE /\ values' = MapInsert(values, Pretty(entry), cached.val)
                        /\ published' = FirstArray(published, Pretty(entry), "cache")
                        /\ IF ReturnsAfterCache(entry)
                           THEN WorkerDone(w, "archived")
                           ELSE wk' = [wk EXCEPT ![w].pc = "generate"]
                        /\ UNCHANGED <<now, config, overrides, admins,
                                       maintainers, lockWriter, poisoned, disk,
                                       dataDir>>
        /\ UNCHANGED workerFrame

\* `Err(error) => { error!(...); return; }`: the worker logs and returns
WorkerFails(w) ==
    /\ wk' = [wk EXCEPT ![w] = [IdleWorker EXCEPT !.pc = "done",
                                                  !.out = "error",
                                                  !.failed = TRUE]]
    /\ UNCHANGED <<now, stateVars, lockWriter, poisoned, disk, dataDir, published>>

\* the overrides handle, the admins and the maintainers are cloned, each
\* under the read lock; then get_repo_closure runs on what the tool reports
WorkerGenerate(w) ==
    /\ Alive
    /\ wk[w].pc = "generate"
    /\ LockFree
    /\ IF poisoned
       THEN WorkerPanics(w)
       ELSE \E results \in EntryResults(matrix[w]) :
              LET broken == GetRepoClosure(matrix[w].release,
                                           EntryContents(matrix[w]), results,
                                           overrides)
              IN  IF ~broken.ok
                  THEN WorkerFails(w)
                  ELSE /\ wk' = [wk EXCEPT
                                   ![w].pc = "publish",
                                   ![w].failed =
                                       \E a \in DOMAIN results : ~results[a].ok,
                                   ![w].new = broken.val]
                       /\ UNCHANGED <<now, stateVars, lockWriter, poisoned,
                                      disk, dataDir, published>>
    /\ UNCHANGED workerFrame

\* the clock as the iterations of the continuity loop read it: it advances
\* at most once while the loop runs, behind iteration k
ClockReads(k, n) == [i \in 1..n |-> IF i > k THEN now + 1 ELSE now]

\* the publish block: the write guard is taken, the old array removed and
\* `since` set on the new records
WorkerLock(w) ==
    LET key == Pretty(matrix[w])
        old_broken == MapGet(values, key)
        n == Len(wk[w].new)
    IN  /\ Alive
        /\ wk[w].pc = "publish"
        /\ LockFree
        /\ IF poisoned
           THEN WorkerPanics(w)
           ELSE /\ lockWriter' = WriteGuard(w)
                /\ values' = MapRemove(values, key)
                /\ \E k \in {n} \cup 1..n :
                     /\ k < n => (now < MaxTime /\ IsSome(old_broken))
                     /\ now' = IF k < n THEN now + 1 ELSE now
                     /\ wk' = [wk EXCEPT
                                 ![w].pc = "write",
                                 ![w].old = old_broken,
                                 ![w].new = SetSince(old_broken, wk[w].new,
                                                     ClockReads(k, n))]
                /\ UNCHANGED <<config, overrides, admins, maintainers, poisoned,
                               disk, dataDir, published>>
        /\ UNCHANGED workerFrame

\* write_json_to_file, called under the write guard
WorkerWriteFile(w) ==
    LET entry == matrix[w]
        path == JsonPath(entry.release, entry.with_testing)
    IN  /\ Alive
        /\ wk[w].pc = "write"
        /\ \/ \* create_dir_all(data_path).expect(...) panics: the guard is
              \* dropped by unwinding, which poisons the lock
              /\ ~dataDir
              /\ poisoned' = TRUE
              /\ lockWriter' = 0
              /\ wk' = [wk EXCEPT ![w] = [IdleWorker EXCEPT !.pc = "panicked"]]
              /\ UNCHANGED <<disk, dataDir>>
           \/ \* the file is written
              /\ disk' = MapInsert(disk, path, JsonFile(wk[w].new))
              /\ dataDir' = TRUE
              /\ wk' = [wk EXCEPT ![w].pc = "insert"]
              /\ UNCHANGED <<lockWriter, poisoned>>
           \/ \* std::fs::write fails: the error is logged
              /\ disk' = disk
              /\ dataDir' = TRUE
              /\ wk' = [wk EXCEPT ![w].pc = "insert"]
              /\ UNCHANGED <<lockWriter, poisoned>>
        /\ UNCHANGED <<now, stateVars, published>>
        /\ UNCHANGED workerFrame

\* state.values.insert(pretty.clone(), Arc::new(new_broken)); the guard is
\* dropped at the end of the block
WorkerInsert(w) ==
    /\ Alive
    /\ wk[w].pc = "insert"
    /\ values' = MapInsert(values, Pretty(matrix[w]), wk[w].new)
    /\ published' = FirstArray(published, Pretty(matrix[w]), "generated")
    /\ lockWriter' = 0
    /\ wk' = [wk EXCEPT ![w].pc = "published"]
    /\ UNCHANGED <<now, config, overrides, admins, maintainers, poisoned, disk,
                   dataDir>>
    /\ UNCHANGED workerFrame

\* info!("Generated data for {}.", &pretty) and the end of the task
WorkerReturn(w) ==
    /\ Alive
    /\ wk[w].pc = "published"
    /\ WorkerDone(w, "generated")
    /\ UNCHANGED <<now, stateVars, lockWriter, poisoned, disk, dataDir, published>>
    /\ UNCHANGED workerFrame

(***************************************************************************)
(* The reload step (watcher, server.rs): four loads, one after another.    *)
(***************************************************************************)
\* what load number `step` can return when it succeeds
Loadable(step) ==
    CASE step = 1 -> {ConfigB, ConfigBad}
      [] step = 2 -> {EditedOverrides}
      [] step = 3 -> {EditedAdmins}
      [] step = 4 -> {EditedMaintainers}

\* the field of State that load number `step` replaces
StateField(step, c, o, a, m) ==
    CASE step = 1 -> c
      [] step = 2 -> o
      [] step = 3 -> a
      [] step = 4 -> m

watcherFrame ==
    <<now, cycle, schedPc, exit, schedIdx, matrix, lockWriter, poisoned, disk,
      dataDir, wk, rd, sawGap, published, call>>

\* `Err(error) => error!(...)`: the failure is logged and the function goes
\* on to the next load
WatcherLoadFailed(c) ==
    /\ wt' = [wt EXCEPT ![c] = @ + 1]
    /\ loadResult' = "err"
    /\ UNCHANGED stateVars

\* `Ok(x) => { let mut guard = state.write().expect(...); state.<field> = x; }`
WatcherInstall(c, loaded) ==
    LET step == wt[c]
    IN  /\ LockFree
        /\ IF poisoned
           THEN /\ wt' = [wt EXCEPT ![c] = 6]
                /\ loadResult' = "panic"
                /\ UNCHANGED stateVars
           ELSE /\ wt' = [wt EXCEPT ![c] = step + 1]
                /\ loadResult' = "ok"
                /\ config' = IF step = 1 THEN loaded ELSE config
                /\ overrides' = IF step = 2 THEN loaded ELSE overrides
                /\ admins' = IF step = 3 THEN loaded ELSE admins
                /\ maintainers' = IF step = 4 THEN loaded ELSE maintainers
                /\ UNCHANGED values

WatcherStep(c) ==
    /\ Alive
    /\ wt[c] \in 1..4
    /\ \/ WatcherLoadFailed(c)
       \/ \E loaded \in Loadable(wt[c]) : WatcherInstall(c, loaded)
    /\ UNCHANGED watcherFrame

(***************************************************************************)
(* GET /data/<release> (server).                                           *)
(***************************************************************************)
\* a request arrives
ReadStart(key) ==
    /\ Alive
    /\ rd = ""
    /\ rd' = key
    /\ UNCHANGED <<now, schedVars, stateVars, lockWriter, poisoned, disk, dataDir,
                   wk, watcherVars, sawGap, published, call>>

\* release_state.read() returns once no writer holds the lock
ReadLockFree == LockFree

\* release_state.read().expect(..) panics on a poisoned lock: the task of
\* the connection ends and the client gets no response
NoResponse == [status |-> "none", body |-> NoneOpt]

\* GET /data/:release
DataRoute(release) ==
    IF poisoned THEN NoResponse
    ELSE LET got == MapGet(values, release)
         IN  IF IsSome(got) THEN [status |-> "200", body |-> got]
             ELSE [status |-> "404", body |-> NoneOpt]

\* router.fallback: any other path
Fallback == [status |-> "404", body |-> NoneOpt]

\* releases.sort(); releases.reverse(): the keys in descending order
RECURSIVE SortReverse(_)
SortReverse(keys) ==
    IF keys = {} THEN <<>>
    ELSE LET last == CHOOSE k \in keys :
                        \A other \in keys : StrRank(other) <= StrRank(k)
         IN  <<last>> \o SortReverse(keys \ {last})

\* GET /: the keys of the snapshot and the length of every array, both in
\* descending order of the key
IndexRoute ==
    IF poisoned THEN NoResponse
    ELSE LET releases == SortReverse(DOMAIN values)
         IN  [status |-> "200",
              body |-> Some([releases |-> releases,
                             stats |-> [i \in DOMAIN releases |->
                                          <<releases[i],
                                            Len(values[releases[i]])>>]])]

\* the handler takes the read lock and clones values.get(&release.0)
ReadData ==
    /\ Alive
    /\ rd # ""
    /\ ReadLockFree
    /\ rd' = ""
    /\ sawGap' = (sawGap \/ (rd \in DOMAIN published
                                /\ DataRoute(rd).status = "404"))
    /\ UNCHANGED <<now, schedVars, stateVars, lockWriter, poisoned, disk, dataDir,
                   wk, watcherVars, published, call>>

(***************************************************************************)
(* The program.                                                            *)
(***************************************************************************)
Next ==
    \/ SchedSpawnWatcher
    \/ SchedSnapshot
    \/ SchedSpawnWorker
    \/ SchedAwait
    \/ SchedSleep
    \/ \E w \in DOMAIN wk : WorkerCheckPrevious(w)
    \/ \E w \in DOMAIN wk : WorkerLoadCache(w)
    \/ \E w \in DOMAIN wk : WorkerGenerate(w)
    \/ \E w \in DOMAIN wk : WorkerLock(w)
    \/ \E w \in DOMAIN wk : WorkerWriteFile(w)
    \/ \E w \in DOMAIN wk : WorkerInsert(w)
    \/ \E w \in DOMAIN wk : WorkerReturn(w)
    \/ \E c \in DOMAIN wt : WatcherStep(c)
    \/ \E key \in ReadKeys : ReadStart(key)
    \/ ReadData

Spec == Init /\ [][Next]_vars

(***************************************************************************)
(* Matrix expansion on its own: the head of the first cycle, for every     *)
(* configuration of up to MaxReleases releases.                            *)
(***************************************************************************)
MaxReleases == 2

MatrixReleases ==
    { [name |-> n, rtype |-> t, arches |-> a, archived |-> x] :
        n \in {"f31", "f32"},
        t \in {"rawhide", "prerelease", "stable"},
        a \in { <<"x86_64">>, <<"x86_64", "aarch64">>, <<"x86_64", "s390x">> },
        x \in BOOLEAN }

RECURSIVE ReleaseLists(_)
ReleaseLists(n) ==
    IF n = 0 THEN { <<>> }
    ELSE ReleaseLists(n - 1) \cup
         { Append(l, r) : l \in { m \in ReleaseLists(n - 1) : Len(m) = n - 1 },
                          r \in MatrixReleases }

MatrixConfigs ==
    { [repos |-> RepoConfig, arches |-> ArchConfigs, releases |-> l] :
        l \in ReleaseLists(MaxReleases) }

InitMatrix ==
    /\ now = 1
    /\ cycle = 1
    /\ schedPc = "loop"
    /\ exit = ""
    /\ schedIdx = 0
    /\ matrix = <<>>
    /\ config \in MatrixConfigs
    /\ overrides = StartOverrides
    /\ admins = StartAdmins
    /\ maintainers = StartMaintainers
    /\ values = <<>>
    /\ lockWriter = 0
    /\ poisoned = FALSE
    /\ disk = <<>>
    /\ dataDir = FALSE
    /\ wk = <<>>
    /\ wt = [c \in 1..MaxCycles |-> 0]
    /\ loadResult = ""
    /\ rd = ""
    /\ sawGap = FALSE
    /\ published = <<>>
    /\ call = NoCall

NextMatrix ==
    \/ SchedSpawnWatcher
    \/ SchedSnapshot

SpecMatrix == InitMatrix /\ [][NextMatrix]_vars

(***************************************************************************)
(* The claims.                                                             *)
(***************************************************************************)
\* the (package, repo, repo_arch) of two records are equal
SameKey(a, b) ==
    a.package = b.package /\ a.repo = b.repo /\ a.repo_arch = b.repo_arch

\* worker w has run the orchestrator in this cycle
Generated(w) ==
    \/ wk[w].pc \in {"publish", "write", "insert", "published"}
    \/ wk[w].pc = "done" /\ wk[w].out \in {"error", "generated"}

\* C1: continuity.  When a worker publishes a new array for a key that had
\* an array, every new record is published with the `since` of every old
\* record that has its (package, repo, repo_arch) and a set `since`.
C1_SinceCarried ==
    \A w \in DOMAIN wk :
        (wk[w].pc = "published" /\ IsSome(wk[w].old)) =>
            LET old_broken == Unwrap(wk[w].old)
                new_broken == values[Pretty(matrix[w])]
            IN  \A i \in DOMAIN new_broken : \A j \in DOMAIN old_broken :
                    (SameKey(old_broken[j], new_broken[i])
                        /\ IsSome(old_broken[j].since))
                    => new_broken[i].since = old_broken[j].since

\* C2: no record is published by a worker with `since` unset; a record with
\* no matching old record, and every record of a key that had no array, has
\* the current time.
C2_SinceAlwaysSet ==
    \A w \in DOMAIN wk :
        wk[w].pc = "published" =>
            LET new_broken == values[Pretty(matrix[w])]
            IN  \A i \in DOMAIN new_broken : IsSome(new_broken[i].since)

\* C3: for an archived entry whose data file loaded (the first array of its
\* key came from the file), no worker runs the orchestrator, neither in the
\* cycle of the load nor in a later one.
C3_ArchivedNeverGenerated ==
    \A w \in DOMAIN wk :
        LET key == Pretty(matrix[w])
        IN  (matrix[w].archived /\ key \in DOMAIN published
                /\ published[key] = "cache")
            => ~Generated(w)

\* C4: a step of the orchestrator in which an arch failed ends the worker
\* with the failure logged; it writes no data file and leaves every array of
\* the snapshot as it was, so that no partial result is published.
C4_FailureChangesNothing ==
    [][\A w \in DOMAIN wk :
          (wk[w].pc = "generate" /\ w \in DOMAIN wk'
              /\ wk'[w].pc # "generate" /\ wk'[w].failed)
          => /\ wk'[w].pc = "done"
             /\ wk'[w].out = "error"
             /\ values' = values
             /\ disk' = disk
             /\ published' = published]_vars

\* C4 witness: a worker has returned on an orchestrator failure; its key
\* still has a non-empty array and another key has an array too.
C4_Witness ==
    \E w \in DOMAIN wk :
        /\ wk[w].pc = "done"
        /\ wk[w].out = "error"
        /\ Pretty(matrix[w]) \in DOMAIN values
        /\ values[Pretty(matrix[w])] # <<>>
        /\ DOMAIN values # {Pretty(matrix[w])}

C6_CycleWaitsForWorkers ==
    schedPc \in {"sleep", "loop", "snapshot"} =>
        \A w \in DOMAIN wk : wk[w].pc = "done"

\* C6 witness: the scheduler sleeps after a cycle of two workers, one of
\* which generated data.
C6_Witness ==
    /\ schedPc = "sleep"
    /\ Len(wk) = 2
    /\ \A w \in DOMAIN wk : wk[w].pc = "done"
    /\ \E w \in DOMAIN wk : wk[w].out = "generated"

\* C7: when the scheduler awaits a worker, a worker has been spawned for
\* every matrix entry of the cycle.
C7_AllSpawnedBeforeAwait ==
    schedPc = "await" => \A w \in DOMAIN wk : wk[w].pc # "idle"

\* C7, what the code does instead: at most one worker of a cycle is spawned
\* and not yet finished.
C7_OneWorkerAtATime ==
    \A v, w \in DOMAIN wk :
        (wk[v].pc \notin {"idle", "done", "panicked"}
            /\ wk[w].pc \notin {"idle", "done", "panicked"}) => v = w

\* C8: any two distinct entries of the matrix of a configuration whose
\* releases have distinct names (the two entries of a stable release
\* included) have disjoint scratch directories, distinct keys and distinct
\* data files.
C8_EntriesDisjoint ==
    (\A r1, r2 \in DOMAIN config.releases :
        r1 # r2 => config.releases[r1].name # config.releases[r2].name)
    => \A i, j \in DOMAIN matrix :
          i # j =>
             /\ ScratchDirs(matrix[i]) \cap ScratchDirs(matrix[j]) = {}
             /\ Pretty(matrix[i]) # Pretty(matrix[j])
             /\ JsonPath(matrix[i].release, matrix[i].with_testing)
                  # JsonPath(matrix[j].release, matrix[j].with_testing)

\* C9: every load of a reload is followed by the next one; a load that
\* fails leaves the snapshot as it was, a load that succeeds installs what
\* it loaded in its own field only, and no load changes the arrays.
C9_LoadsIndependent ==
    [][\A c \in DOMAIN wt :
          (wt[c] \in 1..4 /\ wt'[c] # wt[c]) =>
             /\ wt'[c] = wt[c] + 1
             /\ values' = values
             /\ loadResult' = "err" =>
                   <<config, overrides, admins, maintainers>>'
                     = <<config, overrides, admins, maintainers>>
             /\ loadResult' # "err" =>
                   /\ StateField(wt[c], config', overrides', admins',
                                 maintainers') \in Loadable(wt[c])
                   /\ \A k \in (1..4) \ {wt[c]} :
                         StateField(k, config', overrides', admins', maintainers')
                           = StateField(k, config, overrides, admins,
                                        maintainers)]_vars

\* C10: the scheduler never leaves its loop because of a worker: not when a
\* worker returned on an orchestrator error, not when its task panicked.
C10_SchedulerStaysInLoop ==
    ~(schedPc = "exited" /\ exit \in {"join_error", "poisoned"})


(***************************************************************************)
(* C11: after startup has succeeded the process runs indefinitely: no      *)
(* configuration installed by hot reload makes the scheduler loop          *)
(* terminate, not even one whose matrix expansion returns an error because *)
(* a release lists an arch without an [[arch]] entry.  Stated as: main     *)
(* never returns with the error of the matrix expansion.                   *)
(***************************************************************************)
C11_ReloadNeverEndsLoop ==
    ~(schedPc = "exited" /\ exit = "matrix_error" /\ config = ConfigBad)

(***************************************************************************)
(* The sleep between two cycles on its own (main.rs): the scheduler is at  *)
(* the end of a cycle, for every configured interval of up to MaxInterval  *)
(* hours and every generation time of up to MaxBusy hours.                 *)
(***************************************************************************)
MaxInterval == 13

MaxBusy == 13

\* Duration::from_secs(60 * 60 * 12)
RefreshSecs == 60 * 60 * 12

\* the delay main asks for once the handles of the cycle are joined; the
\* interval of the configuration and the time the cycle took are at hand but
\* do not enter the expression
DelayFor(interval_hours, busy) == RefreshSecs

\* the service at rest: everything but `call`
Parked ==
    /\ now = 1
    /\ cycle = 1
    /\ schedPc = "sleep"
    /\ exit = ""
    /\ schedIdx = 0
    /\ matrix = <<>>
    /\ config = ConfigA
    /\ overrides = StartOverrides
    /\ admins = StartAdmins
    /\ maintainers = StartMaintainers
    /\ values = <<>>
    /\ lockWriter = 0
    /\ poisoned = FALSE
    /\ disk = <<>>
    /\ dataDir = FALSE
    /\ wk = <<>>
    /\ wt = [c \in 1..MaxCycles |-> 0]
    /\ loadResult = ""
    /\ rd = ""
    /\ sawGap = FALSE
    /\ published = <<>>

programVars ==
    <<now, cycle, schedPc, exit, schedIdx, matrix, config, overrides, admins,
      maintainers, values, lockWriter, poisoned, disk, dataDir, wk, wt,
      loadResult, rd, sawGap, published>>

InitSleep ==
    /\ Parked
    /\ call \in [interval : 0..MaxInterval,
                 busy : {h * 3600 : h \in 0..MaxBusy},
                 slept : {NoneOpt}]

\* tokio::spawn(delay_for(...)).await
SchedDelay ==
    /\ call.slept = NoneOpt
    /\ call' = [call EXCEPT !.slept = Some(DelayFor(call.interval, call.busy))]
    /\ UNCHANGED programVars

NextSleep == SchedDelay

SpecSleep == InitSleep /\ [][NextSleep]_vars

(***************************************************************************)
(* C12: after the workers of a cycle have finished, the scheduler sleeps   *)
(* for max(0, interval_hours * 3600 - busy) seconds, interval_hours being  *)
(* the configured interval and busy the generation time of the cycle; the  *)
(* sleep is zero when the cycle took longer than the interval.             *)
(***************************************************************************)
C12_SleepIsIntervalMinusBusy ==
    IsSome(call.slept) =>
        LET rest == call.interval * 3600 - call.busy
        IN  Unwrap(call.slept) = IF rest > 0 THEN rest ELSE 0

(***************************************************************************)
(* The engine on its own: every override file of the shapes below is       *)
(* loaded and then asked up to MaxLookups questions.                       *)
(***************************************************************************)
MaxLookups == 2

\* the maps from a subset of K to V
PartialMaps(K, V) == UNION {[D -> V] : D \in SUBSET K}

OverrideTables == PartialMaps({"libfoo"}, {AllEntry, Packages(<<"foo">>)})

OverrideFiles ==
    PartialMaps({"all", "f32"}, PartialMaps({"all", "x86_64"}, OverrideTables))

InitOverrides ==
    /\ Parked
    /\ call \in [file : OverrideFiles, ov : {NoneOpt}, lookups : {0},
                 hits : {0}, args : {<<>>}, found : {FALSE},
                 before : {<<>>}]

\* the file is loaded
OverridesLoad ==
    /\ call.ov = NoneOpt
    /\ call' = [call EXCEPT !.ov = Some(LoadFromDisk(call.file))]
    /\ UNCHANGED programVars

\* one call of lookup on the loaded engine
OverridesLookup(release, arch, package, broken) ==
    /\ IsSome(call.ov)
    /\ call.lookups < MaxLookups
    /\ LET res == Lookup(Unwrap(call.ov), release, arch, package, broken)
       IN  call' = [call EXCEPT
                      !.ov = Some(res.ov),
                      !.lookups = @ + 1,
                      !.hits = IF res.found THEN @ + 1 ELSE @,
                      !.args = <<release, arch, package, broken>>,
                      !.found = res.found,
                      !.before = Unwrap(call.ov).stats]
    /\ UNCHANGED programVars

NextOverrides ==
    \/ OverridesLoad
    \/ \E package \in {"foo", "bar"}, broken \in {"libfoo", "libbar"} :
          OverridesLookup("f32", "x86_64", package, broken)

SpecOverrides == InitOverrides /\ [][NextOverrides]_vars

(***************************************************************************)
(* Claims about the override engine.                                       *)
(***************************************************************************)
\* the arguments of the latest lookup
LastRelease == call.args[1]
LastArch == call.args[2]
LastPackage == call.args[3]
LastBroken == call.args[4]

\* a lookup has been made
Asked == IsSome(call.ov) /\ call.args # <<>>

\* the counters now
StatsNow == Unwrap(call.ov).stats

\* the paths whose counter differs from before the latest lookup
Changed ==
    {p \in DOMAIN StatsNow :
        p \notin DOMAIN call.before \/ StatsNow[p] # call.before[p]} \cup
    (DOMAIN call.before \ DOMAIN StatsNow)

\* table <outer>/<inner> of the file exists and has a matching entry for the
\* latest question
WouldMatch(outer, inner) ==
    /\ outer \in DOMAIN call.file
    /\ inner \in DOMAIN call.file[outer]
    /\ LastBroken \in DOMAIN call.file[outer][inner]
    /\ LET e == call.file[outer][inner][LastBroken]
       IN  e.all \/ \E i \in DOMAIN e.packages : e.packages[i] = LastPackage

\* the leaf path of the matching entry of table <outer>/<inner>, as it was
\* seeded: .../all for the sentinel, .../<package> for a set
LeafOf(outer, inner) ==
    OpathToStr(outer, inner, LastBroken,
               IF call.file[outer][inner][LastBroken].all THEN "all"
               ELSE LastPackage)

\* one of the six branches the latest lookup needs is missing from the file
BranchMissing ==
    \/ "all" \notin DOMAIN call.file
    \/ "all" \notin DOMAIN call.file["all"]
    \/ LastArch \notin DOMAIN call.file["all"]
    \/ LastRelease \notin DOMAIN call.file
    \/ "all" \notin DOMAIN call.file[LastRelease]
    \/ LastArch \notin DOMAIN call.file[LastRelease]

\* the counter of `leaf`, and no other, went up by one
OnlyCounted(leaf) ==
    /\ leaf \in DOMAIN StatsNow
    /\ leaf \in DOMAIN call.before
    /\ StatsNow[leaf] = call.before[leaf] + 1
    /\ Changed = {leaf}

(***************************************************************************)
(* C13: lookup consults release/arch, release/all, all/arch, all/all in    *)
(* that order and stops at the first table whose entry for the capability  *)
(* matches; at most one counter changes per call, and the counter that is  *)
(* incremented is the one of the leaf of the first matching table (so when *)
(* release/arch and all/all both match, the release/arch leaf is counted   *)
(* and all/all is unchanged).                                              *)
(***************************************************************************)
C13_MostSpecificLeafCounted ==
    (Asked /\ ~BranchMissing) =>
        /\ Cardinality(Changed) <= 1
        /\ call.found = (\/ WouldMatch(LastRelease, LastArch)
                         \/ WouldMatch(LastRelease, "all")
                         \/ WouldMatch("all", LastArch)
                         \/ WouldMatch("all", "all"))
        /\ CASE WouldMatch(LastRelease, LastArch) ->
                    OnlyCounted(LeafOf(LastRelease, LastArch))
             [] WouldMatch(LastRelease, "all") ->
                    OnlyCounted(LeafOf(LastRelease, "all"))
             [] WouldMatch("all", LastArch) ->
                    OnlyCounted(LeafOf("all", LastArch))
             [] WouldMatch("all", "all") ->
                    OnlyCounted(LeafOf("all", "all"))
             [] OTHER -> Changed = {}

\* the sum of the counters of the paths in S
RECURSIVE SumOver(_, _)
SumOver(stats, S) ==
    IF S = {} THEN 0
    ELSE LET p == CHOOSE q \in S : TRUE
         IN  stats[p] + SumOver(stats, S \ {p})

(***************************************************************************)
(* C14: after load_from_disk every structural leaf path                    *)
(* <release>/<arch>/<broken>/<package or "all"> of the tree has a stats    *)
(* entry with value 0; after any sequence of lookups of which N returned   *)
(* true the counters sum to N; a lookup returning false changes no counter.*)
(***************************************************************************)
C14_StatsComplete ==
    IsSome(call.ov) =>
        /\ call.lookups = 0 =>
             \A release \in DOMAIN call.file :
               \A arch \in DOMAIN call.file[release] :
                 \A broken \in DOMAIN call.file[release][arch] :
                   LET e == call.file[release][arch][broken]
                       names == IF e.all THEN {"all"}
                                ELSE {e.packages[i] : i \in DOMAIN e.packages}
                   IN  \A n \in names :
                         LET p == release \o "/" \o arch \o "/" \o broken
                                    \o "/" \o n
                         IN  p \in DOMAIN StatsNow /\ StatsNow[p] = 0
        /\ SumOver(StatsNow, DOMAIN StatsNow) = call.hits
        /\ (call.args # <<>> /\ ~call.found) => StatsNow = call.before

\* a true lookup on a sentinel entry was followed by a false one
C14_Witness ==
    /\ Asked
    /\ call.lookups = 2
    /\ call.hits = 1
    /\ ~call.found
    /\ \E p \in DOMAIN StatsNow : StatsNow[p] = 1

(***************************************************************************)
(* C15: lookup returns false and changes no counter whenever one of the    *)
(* branches all, all/all, all/<arch>, <release>, <release>/all or          *)
(* <release>/<arch> is missing from the tree, even if a table that is      *)
(* present has a matching entry for the capability.                        *)
(***************************************************************************)
C15_MissingBranchIsFalse ==
    (Asked /\ BranchMissing) => (~call.found /\ Changed = {})

\* the table release/arch exists and matches, the branch `all` is missing
C15_Witness ==
    /\ Asked
    /\ "all" \notin DOMAIN call.file
    /\ WouldMatch(LastRelease, LastArch)

(***************************************************************************)
(* The orchestrator on its own (repo.rs): get_repo_closure for one entry   *)
(* of release f32 with the arches x86_64 and aarch64, over the content     *)
(* listings, closure reports of up to MaxRecords records per arch and      *)
(* override files below.                                                   *)
(***************************************************************************)
MaxRecords == 2

ClosureArches == <<"x86_64", "aarch64">>

\* a content listing: the src packages, and the binaries of the sources in S
Listing(S) ==
    << Package("foo", "foo", "src"), Package("bar", "bar", "src") >>
    \o (IF "foo" \in S THEN << Package("foo", "foo", "noarch") >> ELSE <<>>)
    \o (IF "bar" \in S THEN << Package("bar", "bar", "noarch") >> ELSE <<>>)

\* foo is built on both arches, on x86_64 only, or nowhere
ContentChoices ==
    { << Listing(x), Listing(a) >> :
        x \in {{"foo", "bar"}, {"bar"}}, a \in {{"foo", "bar"}, {"bar"}, {}} }

\* the records the closure check of one arch can report
ReportedItems(repo_arch) ==
    { [BrokenItem("foo", "src", "fedora", repo_arch)
          EXCEPT !.broken = <<"libfoo", "libbar">>],
      [BrokenItem("foo", "src", "updates", repo_arch)
          EXCEPT !.broken = <<"libbar">>],
      [BrokenItem("foo", "noarch", "fedora", repo_arch)
          EXCEPT !.broken = <<"libbar", "libfoo">>],
      BrokenItem("bar", "noarch", "fedora", repo_arch) }

\* the sequences over S of length up to n
RECURSIVE SeqsUpTo(_, _)
SeqsUpTo(S, n) ==
    IF n = 0 THEN { <<>> }
    ELSE LET shorter == SeqsUpTo(S, n - 1)
         IN  shorter \cup { Append(s, x) : s \in shorter, x \in S }

\* get_repo_closure_arched of one arch: an error, or its records
ReportChoices(repo_arch) ==
    { Err("dnf exited with an error code.") } \cup
    { Ok(s) : s \in SeqsUpTo(ReportedItems(repo_arch), MaxRecords) }

\* a report the listing allows: state_to_dep found the source of every
\* binary package in the listing of the arch, and the records of the check
\* repository fedora come before those of updates
Reportable(listing, report) ==
    report.ok =>
        /\ \A i \in DOMAIN report.val :
              report.val[i].arch # "src" =>
                  \E j \in DOMAIN listing :
                      /\ listing[j].arch # "src"
                      /\ listing[j].name = report.val[i].package
        /\ \A i, j \in DOMAIN report.val :
              (i < j /\ report.val[i].repo = "updates") =>
                  report.val[j].repo = "updates"

\* override files with every branch the lookups need, and one without `all`
ClosureOverrideFile(all_all, f32_x86_64) ==
    [all |-> [all |-> all_all, x86_64 |-> <<>>, aarch64 |-> <<>>],
     f32 |-> [all |-> <<>>, x86_64 |-> f32_x86_64, aarch64 |-> <<>>]]

ClosureOverrideFiles ==
    { ClosureOverrideFile(<<>>, <<>>),
      ClosureOverrideFile(<<>>, [libfoo |-> Packages(<<"foo">>)]),
      ClosureOverrideFile([libfoo |-> AllEntry, libbar |-> AllEntry], <<>>),
      ClosureOverrideFile([libbar |-> AllEntry], <<>>),
      [f32 |-> [all |-> <<>>, x86_64 |-> [libfoo |-> AllEntry],
                aarch64 |-> <<>>]] }

InitClosure ==
    /\ Parked
    /\ call \in
         { c \in [release : {"f32"},
                  contents : ContentChoices,
                  results : { <<x, a>> : x \in ReportChoices("x86_64"),
                                         a \in ReportChoices("aarch64") },
                  ov : { LoadFromDisk(f) : f \in ClosureOverrideFiles },
                  out : {NoneOpt}] :
             \A a \in 1..2 : Reportable(c.contents[a], c.results[a]) }

\* get_repo_closure runs
ClosureRun ==
    /\ call.out = NoneOpt
    /\ call' = [call EXCEPT !.out =
                   Some(GetRepoClosure(call.release, call.contents,
                                       call.results, call.ov))]
    /\ UNCHANGED programVars

NextClosure == ClosureRun

SpecClosure == InitClosure /\ [][NextClosure]_vars

(***************************************************************************)
(* Claims about the orchestrator.                                          *)
(***************************************************************************)
\* get_repo_closure has returned an array
Returned == IsSome(call.out) /\ Unwrap(call.out).ok

\* the array it returned
Output == Unwrap(call.out).val

\* the places of the reported records: <<arch, index in the arch's report>>
Reported ==
    {p \in (1..2) \X (1..(MaxRecords + 1)) :
        call.results[p[1]].ok /\ p[2] \in DOMAIN call.results[p[1]].val}

ReportedAt(p) == call.results[p[1]].val[p[2]]

\* the indices of the capabilities of record x for which the lookup on
\* (release, repo_arch, package, capability) is false
KeptIdx(x) ==
    {k \in DOMAIN x.broken :
        ~Lookup(call.ov, call.release, x.repo_arch, x.package, x.broken[k]).found}

\* o is record x with its list cut down to the capabilities of KeptIdx(x),
\* in their order
IsKeptOf(o, x) ==
    /\ [o EXCEPT !.broken = <<>>] = [x EXCEPT !.broken = <<>>]
    /\ LET kept == KeptIdx(x)
       IN  /\ Len(o.broken) = Cardinality(kept)
           /\ \E f \in [DOMAIN o.broken -> kept] :
                 /\ \A i, j \in DOMAIN o.broken : i < j => f[i] < f[j]
                 /\ \A i \in DOMAIN o.broken : o.broken[i] = x.broken[f[i]]

(***************************************************************************)
(* C16: for every record of the orchestrator's output, `broken` is a       *)
(* non-empty subsequence (order preserved) of the capability list parsed   *)
(* for that record, made of exactly the capabilities for which the         *)
(* override lookup on (release, repo_arch, package, capability) returned   *)
(* false; records whose list becomes empty do not appear.                  *)
(***************************************************************************)
C16_OverriddenDropped ==
    Returned =>
        \A j \in DOMAIN Output :
            /\ Output[j].broken # <<>>
            /\ \E p \in Reported : IsKeptOf(Output[j], ReportedAt(p))

\* one reported record lost a capability and kept another, one lost all
C16_Witness ==
    /\ Returned
    /\ Output # <<>>
    /\ \E p, q \in Reported :
          /\ KeptIdx(ReportedAt(p)) # {}
          /\ KeptIdx(ReportedAt(p)) # DOMAIN ReportedAt(p).broken
          /\ KeptIdx(ReportedAt(q)) = {}
          /\ \E j \in DOMAIN Output : IsKeptOf(Output[j], ReportedAt(p))

\* a.(source, package, arch) <= b.(source, package, arch), lexicographically
TripleLeq(a, b) ==
    LET ka == <<StrRank(a.source), StrRank(a.package), StrRank(a.arch)>>
        kb == <<StrRank(b.source), StrRank(b.package), StrRank(b.arch)>>
    IN  \/ ka = kb
        \/ \E i \in 1..3 : ka[i] < kb[i] /\ \A j \in 1..(i - 1) : ka[j] = kb[j]

SameTriple(a, b) ==
    a.source = b.source /\ a.package = b.package /\ a.arch = b.arch

\* the records in the order they were produced: arch order, then the order
\* of the arch's report (check repository order)
Produced ==
    FilteredBroken(call.release, call.contents, call.results, call.ov).val

(***************************************************************************)
(* C17: every array returned by the orchestrator is sorted by (source,     *)
(* package, arch): consecutive records are in non-decreasing lexicographic *)
(* order of the triple, and records with equal triples keep the order in   *)
(* which they were produced (arch order, then check-repository order).     *)
(***************************************************************************)
C17_SortedStable ==
    Returned =>
        LET out == Output
            produced == Produced
        IN  /\ \A i, j \in DOMAIN out : i < j => TripleLeq(out[i], out[j])
            /\ Len(out) = Len(produced)
            /\ \A k \in DOMAIN produced :
                  LET x == produced[k]
                  IN  SelectSeq(out, LAMBDA o : SameTriple(o, x))
                        = SelectSeq(produced, LAMBDA o : SameTriple(o, x))

\* the sort moved a record, and two records with the same triple that came
\* from different arches are in the array
C17_Witness ==
    /\ Returned
    /\ Output # Produced
    /\ \E i, j \in DOMAIN Output :
          /\ i < j
          /\ SameTriple(Output[i], Output[j])
          /\ Output[i].repo_arch = "x86_64"
          /\ Output[j].repo_arch = "aarch64"

\* the sources with a non-src package in the listing of arch a
BuiltOn(a) ==
    {call.contents[a][i].source_name :
        i \in {j \in DOMAIN call.contents[a] : call.contents[a][j].arch # "src"}}

\* record x, reported for arch a, is a src record of a source that is built
\* on some arch of the entry but not on a
ExcludedRecord(a, x) ==
    /\ x.arch = "src"
    /\ x.source \in (BuiltOn(1) \cup BuiltOn(2)) \ BuiltOn(a)

(***************************************************************************)
(* C18: with U the union over the arches of an entry of the source names   *)
(* that have a non-src package in the arch's content listing and built(A)  *)
(* that set for arch A, the output has no record with arch "src",          *)
(* repo_arch A and source in U minus built(A); and the exclusion filter    *)
(* removes no other record: every other reported record that keeps a       *)
(* capability is in the output.                                            *)
(***************************************************************************)
C18_ExcludedArchSkipped ==
    Returned =>
        /\ \A j \in DOMAIN Output : \A a \in 1..2 :
              Output[j].repo_arch = ClosureArches[a] =>
                  ~ExcludedRecord(a, Output[j])
        /\ Len(Output) =
              Cardinality({p \in Reported :
                              /\ ~ExcludedRecord(p[1], ReportedAt(p))
                              /\ KeptIdx(ReportedAt(p)) # {}})

\* foo is built on x86_64 only; its src record was reported for both arches
\* and the one of x86_64 is in the output
C18_Witness ==
    /\ Returned
    /\ "foo" \in BuiltOn(1) \ BuiltOn(2)
    /\ \E p \in Reported : p[1] = 2 /\ ReportedAt(p).source = "foo"
                            /\ ReportedAt(p).arch = "src"
                            /\ KeptIdx(ReportedAt(p)) # {}
    /\ \E j \in DOMAIN Output : /\ Output[j].source = "foo"
                                /\ Output[j].arch = "src"
                                /\ Output[j].repo_arch = "x86_64"

(***************************************************************************)
(* The parsers (parse.rs).  A &str is a sequence of characters.            *)
(***************************************************************************)
\* the position of the first c in s, or 0
FirstIndexOf(s, c) ==
    LET at == {i \in DOMAIN s : s[i] = c}
    IN  IF at = {} THEN 0 ELSE CHOOSE i \in at : \A j \in at : i <= j

\* the position of the last c in s, or 0: where rsplitn cuts first
LastIndexOf(s, c) ==
    LET at == {i \in DOMAIN s : s[i] = c}
    IN  IF at = {} THEN 0 ELSE CHOOSE i \in at : \A j \in at : j <= i

\* s.split(c).collect()
RECURSIVE Split(_, _)
Split(s, c) ==
    LET at == FirstIndexOf(s, c)
    IN  IF at = 0 THEN <<s>>
        ELSE <<SubSeq(s, 1, at - 1)>> \o Split(SubSeq(s, at + 1, Len(s)), c)

\* s.starts_with(prefix)
StartsWith(s, prefix) ==
    Len(s) >= Len(prefix) /\ SubSeq(s, 1, Len(prefix)) = prefix

Whitespace == {" ", "\t", "\r", "\n"}

\* s.trim()
Trim(s) ==
    LET solid == {i \in DOMAIN s : s[i] \notin Whitespace}
    IN  IF solid = {} THEN <<>>
        ELSE SubSeq(s, CHOOSE i \in solid : \A j \in solid : i <= j,
                       CHOOSE i \in solid : \A j \in solid : j <= i)

\* format!("Unexpected error when parsing NEVRAs: {}", ..) up to the
\* argument
NevraError ==
    <<"U", "n", "e", "x", "p", "e", "c", "t", "e", "d", " ", "e", "r", "r",
      "o", "r", " ", "w", "h", "e", "n", " ", "p", "a", "r", "s", "i", "n",
      "g", " ", "N", "E", "V", "R", "A", "s", ":", " ">>

\* the name is cut off at the first `-`
ParseNevraNameFirst(nevra) ==
    LET dot == LastIndexOf(nevra, ".")
        a == SubSeq(nevra, dot + 1, Len(nevra))
        parts == Split(SubSeq(nevra, 1, dot - 1), "-")
        e_v == Split(parts[2], ":")
    IN  IF dot = 0 \/ Len(parts) < 3
        THEN Err("Unexpected error when parsing NEVRAs")
        ELSE Ok([n |-> parts[1],
                 e |-> IF Len(e_v) > 1 THEN e_v[1] ELSE <<"0">>,
                 v |-> IF Len(e_v) > 1 THEN e_v[2] ELSE parts[2],
                 r |-> parts[Len(parts)], a |-> a])

\* parse_nevra: the arch is cut off at the last `.`, then release and
\* epoch:version at the last two `-`; what is left is the name
ParseNevra(nevra) ==
    LET dot == LastIndexOf(nevra, ".")
        a == SubSeq(nevra, dot + 1, Len(nevra))
        nevr == SubSeq(nevra, 1, dot - 1)
        dash == LastIndexOf(nevr, "-")
        r == SubSeq(nevr, dash + 1, Len(nevr))
        n_ev == SubSeq(nevr, 1, dash - 1)
        dash2 == LastIndexOf(n_ev, "-")
        ev == SubSeq(n_ev, dash2 + 1, Len(n_ev))
        n == SubSeq(n_ev, 1, dash2 - 1)
        e_v == Split(ev, ":")
    IN  IF dot = 0 THEN Err(NevraError \o nevra)
        ELSE IF dash = 0 \/ dash2 = 0
        THEN Err(NevraError \o nevr)
        ELSE IF Len(e_v) > 1
        THEN Ok([n |-> n, e |-> e_v[1], v |-> e_v[2], r |-> r, a |-> a])
        ELSE Ok([n |-> n, e |-> <<"0">>, v |-> ev, r |-> r, a |-> a])

PackagePrefix == <<"p", "a", "c", "k", "a", "g", "e", ":", " ">>

DepsPrefix ==
    <<" ", " ", "u", "n", "r", "e", "s", "o", "l", "v", "e", "d", " ", "d",
      "e", "p", "s", ":">>

FourSpaces == <<" ", " ", " ", " ">>

\* state_to_dep of parse_repoclosure
StateToDep(state) ==
    [package |-> state.nevra.n, epoch |-> state.nevra.e,
     version |-> state.nevra.v, release |-> state.nevra.r,
     arch |-> state.nevra.a, repo |-> state.repo, broken |-> state.broken]

\* `if let Some(status) = state { broken_deps.push(state_to_dep(status)?); }`
CommitOpen(broken_deps, state) ==
    IF IsSome(state) THEN Append(broken_deps, StateToDep(Unwrap(state)))
    ELSE broken_deps

\* a line the parser cannot place is passed over
ParseLineLenient(st, line) ==
    IF ~st.ok THEN st
    ELSE IF StartsWith(line, PackagePrefix)
    THEN LET split == Split(line, " ")
             nevra == ParseNevra(split[2])
         IN  IF Len(split) < 4 \/ ~nevra.ok
             THEN st
             ELSE [ok |-> TRUE,
                   broken_deps |-> CommitOpen(st.broken_deps, st.state),
                   state |-> Some([nevra |-> nevra.val, repo |-> split[4],
                                   broken |-> <<>>])]
    ELSE IF StartsWith(line, DepsPrefix) THEN st
    ELSE IF StartsWith(line, FourSpaces)
    THEN IF IsSome(st.state)
         THEN [st EXCEPT !.state[1].broken = Append(@, Trim(line))]
         ELSE st
    ELSE st

\* the body of `for line in lines`; st.ok is FALSE once an Err was returned
ParseLine(st, line) ==
    IF ~st.ok THEN st
    ELSE IF StartsWith(line, PackagePrefix)
    THEN LET split == Split(line, " ")
             nevra == ParseNevra(split[2])
         IN  IF Len(split) < 4 \/ ~nevra.ok
             THEN [st EXCEPT !.ok = FALSE]
             ELSE [ok |-> TRUE,
                   broken_deps |-> CommitOpen(st.broken_deps, st.state),
                   state |-> Some([nevra |-> nevra.val, repo |-> split[4],
                                   broken |-> <<>>])]
    ELSE IF StartsWith(line, DepsPrefix) THEN st
    ELSE IF StartsWith(line, FourSpaces)
    THEN IF IsSome(st.state)
         THEN [st EXCEPT !.state[1].broken = Append(@, Trim(line))]
         ELSE [st EXCEPT !.ok = FALSE]
    ELSE st

RECURSIVE ParseLines(_, _, _)
ParseLines(st, lines, i) ==
    IF i > Len(lines) THEN st
    ELSE ParseLines(ParseLine(st, lines[i]), lines, i + 1)

\* the record that is open at the end of the input is not committed
EndOfInputNoCommit(st) ==
    IF st.ok THEN Ok(st.broken_deps)
    ELSE Err("Failed to parse repoclosure output")

\* behind the loop: the open record is committed and the vector returned
EndOfInput(st) ==
    IF st.ok THEN Ok(CommitOpen(st.broken_deps, st.state))
    ELSE Err("Failed to parse repoclosure output")

\* parse_repoclosure
ParseRepoclosure(string) ==
    EndOfInput(ParseLines([ok |-> TRUE, broken_deps |-> <<>>,
                           state |-> NoneOpt],
                          Split(string, "\n"), 1))

(***************************************************************************)
(* parse_nevra on its own: every NEVRA whose parts are strings of up to    *)
(* MaxPart characters, the epoch (a decimal number) present or absent.     *)
(***************************************************************************)
MaxPart == 2

\* the non-empty strings over alphabet A of up to n characters
Strings(A, n) == SeqsUpTo(A, n) \ { <<>> }

\* n-[e:]v-r.a
FormatNevra(n, e, v, r, a) ==
    n \o <<"-">> \o (IF IsSome(e) THEN Unwrap(e) \o <<":">> ELSE <<>>)
      \o v \o <<"-">> \o r \o <<".">> \o a

InitNevra ==
    /\ Parked
    /\ call \in [n : Strings({"a", "-", "."}, MaxPart),
                 e : {NoneOpt} \cup {Some(x) : x \in Strings({"0", "3"}, MaxPart)},
                 v : Strings({"1", "."}, MaxPart),
                 r : Strings({"2", "."}, MaxPart),
                 a : Strings({"x"}, MaxPart),
                 parsed : {NoneOpt}]

\* parse_nevra is applied to the formatted string
NevraParse ==
    /\ call.parsed = NoneOpt
    /\ call' = [call EXCEPT !.parsed =
                   Some(ParseNevra(FormatNevra(call.n, call.e, call.v, call.r,
                                               call.a)))]
    /\ UNCHANGED programVars

NextNevra == NevraParse

SpecNevra == InitNevra /\ [][NextNevra]_vars

(***************************************************************************)
(* C20: parse_nevra round trip: for (n, e, v, r, a) with no `:` or `-` in  *)
(* v or r and no `.` in a, parsing n-[e:]v-r.a returns (n, e, v, r, a),    *)
(* with epoch "0" when the epoch is absent; this holds for names without   *)
(* `-` and also for names that contain `-`, which are returned whole.      *)
(***************************************************************************)
C20_NevraRoundTrip ==
    IsSome(call.parsed) =>
        Unwrap(call.parsed) =
            Ok([n |-> call.n,
                e |-> IF IsSome(call.e) THEN Unwrap(call.e) ELSE <<"0">>,
                v |-> call.v, r |-> call.r, a |-> call.a])

\* a name with a `-` and no epoch was parsed
C20_Witness ==
    /\ IsSome(call.parsed)
    /\ call.n = <<"a", "-">>
    /\ call.e = NoneOpt
    /\ Unwrap(call.parsed).ok
    /\ Unwrap(call.parsed).val.e = <<"0">>

(***************************************************************************)
(* parse_repoclosure on its own: the output of the closure check is up to  *)
(* MaxBlocks blocks, each a `package:` line and up to two of the lines     *)
(* below.                                                                  *)
(***************************************************************************)
MaxBlocks == 2

\* the lines between two `package:` lines, each with the capability it
\* stands for, if any
BodyLines ==
    { [line |-> DepsPrefix, cap |-> NoneOpt],
      [line |-> FourSpaces \o <<"l", "(", ")">>, cap |-> Some(<<"l", "(", ")">>)],
      [line |-> FourSpaces \o <<" ", "m", ":", "n", " ">>,
       cap |-> Some(<<"m", ":", "n">>)],
      [line |-> <<" ", "z">>, cap |-> NoneOpt] }

\* the packages the blocks are about, and the repository each is from
BlockHeads ==
    { [nevra |-> [n |-> <<"a", "-", "b">>, e |-> NoneOpt,
                  v |-> <<"1", ".", "3">>, r |-> <<"4", ".", "f">>,
                  a |-> <<"x">>],
       repo |-> <<"f">>],
      [nevra |-> [n |-> <<"c">>, e |-> Some(<<"2">>), v |-> <<"1">>,
                  r |-> <<"4">>, a |-> <<"s">>],
       repo |-> <<"u", "-", "t">>] }

Blocks ==
    { [nevra |-> h.nevra, repo |-> h.repo, body |-> body] :
        h \in BlockHeads, body \in SeqsUpTo(BodyLines, 2) }

\* package: <NEVRA> from <repo>
PackageLine(block) ==
    PackagePrefix
      \o FormatNevra(block.nevra.n, block.nevra.e, block.nevra.v,
                     block.nevra.r, block.nevra.a)
      \o <<" ", "f", "r", "o", "m", " ">> \o block.repo

\* the lines of the blocks from block i on
RECURSIVE LinesFrom(_, _)
LinesFrom(blocks, i) ==
    IF i > Len(blocks) THEN <<>>
    ELSE <<PackageLine(blocks[i])>>
           \o [j \in DOMAIN blocks[i].body |-> blocks[i].body[j].line]
           \o LinesFrom(blocks, i + 1)

\* the lines joined with "\n"
RECURSIVE Join(_)
Join(lines) ==
    IF lines = <<>> THEN <<>>
    ELSE IF Len(lines) = 1 THEN lines[1]
    ELSE lines[1] \o <<"\n">> \o Join(Tail(lines))

InitParse ==
    /\ Parked
    /\ call \in [blocks : SeqsUpTo(Blocks, MaxBlocks), parsed : {NoneOpt}]

\* parse_repoclosure is applied to the text of the blocks
ClosureParse ==
    /\ call.parsed = NoneOpt
    /\ call' = [call EXCEPT !.parsed =
                   Some(ParseRepoclosure(Join(LinesFrom(call.blocks, 1))))]
    /\ UNCHANGED programVars

NextParse == ClosureParse

SpecParse == InitParse /\ [][NextParse]_vars

\* the capabilities of a block's body, in order
RECURSIVE CapsOf(_)
CapsOf(body) ==
    IF body = <<>> THEN <<>>
    ELSE body[1].cap \o CapsOf(Tail(body))

(***************************************************************************)
(* C19: parsing closure output that consists of k well-formed              *)
(* `package: <NEVRA> from <repo>` blocks yields exactly k records in input *)
(* order; record i carries the NEVRA fields and the repo of package line i *)
(* and its `broken` list is, in order, the trimmed four-space lines up to  *)
(* the next package line or the end of the input; `  unresolved deps:`     *)
(* lines and all other lines are skipped, and the record that is open at   *)
(* the end of the input is committed.                                      *)
(***************************************************************************)
C19_BlocksParsed ==
    IsSome(call.parsed) =>
        /\ Unwrap(call.parsed).ok
        /\ LET deps == Unwrap(call.parsed).val
           IN  /\ Len(deps) = Len(call.blocks)
               /\ \A i \in DOMAIN call.blocks :
                     LET b == call.blocks[i]
                     IN  deps[i] =
                           [package |-> b.nevra.n,
                            epoch |-> IF IsSome(b.nevra.e) THEN Unwrap(b.nevra.e)
                                      ELSE <<"0">>,
                            version |-> b.nevra.v, release |-> b.nevra.r,
                            arch |-> b.nevra.a, repo |-> b.repo,
                            broken |-> CapsOf(b.body)]

\* two blocks were parsed; the first has a skipped line between two
\* capabilities, the last one ends the input with a capability
C19_Witness ==
    /\ IsSome(call.parsed)
    /\ Len(call.blocks) = 2
    /\ Len(call.blocks[1].body) = 2
    /\ IsSome(call.blocks[1].body[1].cap)
    /\ call.blocks[1].body[2].cap = NoneOpt
    /\ Len(call.blocks[2].body) = 2
    /\ IsSome(call.blocks[2].body[2].cap)
    /\ Len(Unwrap(call.parsed).val) = 2
    /\ Len(Unwrap(call.parsed).val[2].broken) >= 1

\* ---------------------------------------------------------------------
\* The content-listing parser (parse_repoquery, and the same loop in
\* get_repo_contents over the trimmed output of dnf repoquery)
\* ---------------------------------------------------------------------

MaxQueryLines == 2

Digits == <<"0", "1", "2", "3", "4", "5", "6", "7", "8", "9">>

IsDigit(c) == \E i \in 1..Len(Digits) : Digits[i] = c

DigitValue(c) == (CHOOSE i \in 1..Len(Digits) : Digits[i] = c) - 1

RECURSIVE DecimalValue(_)
DecimalValue(s) ==
    IF s = <<>> THEN 0
    ELSE DecimalValue(SubSeq(s, 1, Len(s) - 1)) * 10 + DigitValue(s[Len(s)])

\* epoch.parse::<i32>(): an optional sign, then one or more decimal digits;
\* the fields of the inputs are too short to leave the range of i32
ParseI32(s) ==
    LET signed == s # <<>> /\ s[1] \in {"+", "-"}
        digits == IF signed THEN Tail(s) ELSE s
    IN  IF digits = <<>> \/ \E i \in 1..Len(digits) : ~IsDigit(digits[i])
        THEN Err("invalid digit")
        ELSE Ok(IF signed /\ s[1] = "-" THEN 0 - DecimalValue(digits)
                ELSE DecimalValue(digits))

\* Package { name, source_name, epoch, version, release, arch }
PackageOf(name, source, epoch, version, release, arch) ==
    [name |-> name, source_name |-> source, epoch |-> epoch,
     version |-> version, release |-> release, arch |-> arch]

\* a line that fails is skipped and the loop goes on
QueryLineSkipping(st, line) ==
    LET split == Split(line, " ")
    IN  IF ~st.ok THEN st
        ELSE IF Len(split) # 6 THEN st
        ELSE LET epoch == ParseI32(split[3])
             IN  IF ~epoch.ok THEN st
                 ELSE Ok(Append(st.val,
                                PackageOf(split[1], split[2], epoch.val,
                                          split[4], split[5], split[6])))

\* one turn of the loop over the lines: seven split.next() match exactly six
\* components, the package is pushed, and either failure returns at once
QueryLine(st, line) ==
    LET split == Split(line, " ")
    IN  IF ~st.ok THEN st
        ELSE IF Len(split) # 6 THEN Err("Failed to parse line")
        ELSE LET epoch == ParseI32(split[3])
             IN  IF ~epoch.ok THEN Err("Failed to parse Epoch value")
                 ELSE Ok(Append(st.val,
                                PackageOf(split[1], split[2], epoch.val,
                                          split[4], split[5], split[6])))

RECURSIVE QueryLines(_, _)
QueryLines(st, lines) ==
    IF lines = <<>> THEN st
    ELSE QueryLines(QueryLine(st, Head(lines)), Tail(lines))

\* an empty string is an empty list of packages
ParseRepoqueryEmptyOk(string) ==
    IF string = <<>> THEN Ok(<<>>)
    ELSE QueryLines(Ok(<<>>), Split(string, "\n"))

\* parse_repoquery(string)
ParseRepoquery(string) == QueryLines(Ok(<<>>), Split(string, "\n"))

\* get_repo_contents: the output of dnf repoquery is trimmed, then parsed by
\* the same loop
ParseContents(stdout) == ParseRepoquery(Trim(stdout))

\* a line of the input: its fields, and the value of its epoch when it has
\* six fields and the third is an integer
QueryLineChoices ==
    { [fields |-> <<<<"a">>, <<"s">>, e.text, <<"1">>, <<"2">>, <<"x">>>>,
       epoch |-> Some(e.val)]
        : e \in { [text |-> <<"0">>, val |-> 0],
                  [text |-> <<"1", "2">>, val |-> 12],
                  [text |-> <<"-", "1">>, val |-> 0 - 1],
                  [text |-> <<"+", "3">>, val |-> 3] } }
    \cup
    { [fields |-> <<<<"a">>, <<"s">>, e, <<"1">>, <<"2">>, <<"x">>>>,
       epoch |-> NoneOpt]
        : e \in { <<"x">>, <<"1", "x">>, <<>>, <<"-">> } }
    \cup
    { [fields |-> f, epoch |-> NoneOpt]
        : f \in { <<<<>>>>,
                  <<<<"a">>, <<"s">>, <<"0">>, <<"1">>, <<"2">>>>,
                  <<<<"a">>, <<"s">>, <<"0">>, <<"1">>, <<"2">>, <<"x">>,
                    <<"y">>>> } }

RECURSIVE JoinWith(_, _)
JoinWith(parts, c) ==
    IF parts = <<>> THEN <<>>
    ELSE IF Len(parts) = 1 THEN parts[1]
    ELSE parts[1] \o <<c>> \o JoinWith(Tail(parts), c)

\* the text of the chosen lines
QueryText(lines) ==
    JoinWith([i \in 1..Len(lines) |-> JoinWith(lines[i].fields, " ")], "\n")

InitQuery ==
    /\ Parked
    /\ call \in [lines : SeqsUpTo(QueryLineChoices, MaxQueryLines) \ {<<>>},
                 trimmed : BOOLEAN,
                 parsed : {NoneOpt}]

\* parse_repoquery is applied to the text
QueryParse ==
    /\ call.parsed = NoneOpt
    /\ ~call.trimmed
    /\ call' = [call EXCEPT !.parsed = Some(ParseRepoquery(QueryText(call.lines)))]
    /\ UNCHANGED programVars

\* get_repo_contents parses the output of dnf repoquery
ContentsParse ==
    /\ call.parsed = NoneOpt
    /\ call.trimmed
    /\ call' = [call EXCEPT !.parsed = Some(ParseContents(QueryText(call.lines)))]
    /\ UNCHANGED programVars

NextQuery == QueryParse \/ ContentsParse

SpecQuery == InitQuery /\ [][NextQuery]_vars

IsEmptyLine(l) == l.fields = <<<<>>>>

\* the lines the loop sees: all of them, or those left by trimming the text
RECURSIVE DropLeadingEmpty(_)
DropLeadingEmpty(lines) ==
    IF lines # <<>> /\ IsEmptyLine(Head(lines))
    THEN DropLeadingEmpty(Tail(lines)) ELSE lines

RECURSIVE DropTrailingEmpty(_)
DropTrailingEmpty(lines) ==
    IF lines # <<>> /\ IsEmptyLine(lines[Len(lines)])
    THEN DropTrailingEmpty(SubSeq(lines, 1, Len(lines) - 1)) ELSE lines

SeenLines ==
    IF ~call.trimmed THEN call.lines
    ELSE LET kept == DropTrailingEmpty(DropLeadingEmpty(call.lines))
         IN  IF kept = <<>> THEN << [fields |-> <<<<>>>>, epoch |-> NoneOpt] >>
             ELSE kept

WellFormed(l) == Len(l.fields) = 6 /\ IsSome(l.epoch)

PackageOfLine(l) ==
    PackageOf(l.fields[1], l.fields[2], Unwrap(l.epoch), l.fields[4],
              l.fields[5], l.fields[6])

\* C21: the parse returns one Package per line, in input order, exactly when
\* every line has six space-separated fields and an integer third field;
\* otherwise it returns an error and no package list
C21_AllLinesOrError ==
    IsSome(call.parsed) =>
        LET out == Unwrap(call.parsed)
            seen == SeenLines
        IN  IF \A i \in 1..Len(seen) : WellFormed(seen[i])
            THEN /\ out.ok
                 /\ out.val = [i \in 1..Len(seen) |-> PackageOfLine(seen[i])]
            ELSE ~out.ok

\* a well-formed line followed by a malformed one has been parsed
C21_Witness ==
    /\ IsSome(call.parsed)
    /\ Len(call.lines) = 2
    /\ WellFormed(call.lines[1])
    /\ ~WellFormed(call.lines[2]) /\ ~IsEmptyLine(call.lines[2])
    /\ ~Unwrap(call.parsed).ok

\* ---------------------------------------------------------------------
\* Matrix expansion (Config::to_matrix) over bounded configurations
\* ---------------------------------------------------------------------

\* a repository table in which every list is distinct and non-empty
RepoConfigUpdates ==
    [stable |-> <<"fedora">>, updates |-> <<"updates">>,
     testing |-> <<"updates-testing">>, rawhide |-> <<"rawhide">>]

ExpandConfigs ==
    { [repos |-> p, arches |-> ArchConfigs, releases |-> l] :
        p \in {RepoConfig, RepoConfigUpdates},
        l \in ReleaseLists(MaxReleases) }

InitExpand ==
    /\ Parked
    /\ call \in [cfg : ExpandConfigs, out : {NoneOpt}]

\* config.to_matrix()
ExpandRun ==
    /\ call.out = NoneOpt
    /\ call' = [call EXCEPT !.out = Some(ToMatrix(call.cfg))]
    /\ UNCHANGED programVars

NextExpand == ExpandRun

SpecExpand == InitExpand /\ [][NextExpand]_vars

Expanded == IsSome(call.out)

Matrix == Unwrap(call.out)

\* the arch names with an entry in the global arch table
KnownArches(cfg) == { cfg.arches[i].name : i \in 1..Len(cfg.arches) }

Elems(s) == { s[i] : i \in 1..Len(s) }

Unresolved(cfg, release) == Elems(release.arches) \ KnownArches(cfg)

\* the (repos, check, with_testing) triples the release type calls for
EntriesCalledFor(cfg, release) ==
    IF release.rtype = "rawhide"
    THEN << <<cfg.repos.rawhide, cfg.repos.rawhide, FALSE>> >>
    ELSE IF release.rtype = "prerelease"
    THEN << <<cfg.repos.stable, cfg.repos.stable, FALSE>> >>
    ELSE << <<cfg.repos.stable \o cfg.repos.updates,
              cfg.repos.stable \o cfg.repos.updates, FALSE>>,
            <<cfg.repos.stable \o cfg.repos.updates \o cfg.repos.testing,
              cfg.repos.testing, TRUE>> >>

RECURSIVE CalledForFrom(_, _)
CalledForFrom(cfg, r) ==
    IF r > Len(cfg.releases) THEN <<>>
    ELSE LET release == cfg.releases[r]
             called  == EntriesCalledFor(cfg, release)
         IN  [i \in 1..Len(called) |-> [release |-> release, triple |-> called[i]]]
             \o CalledForFrom(cfg, r + 1)

\* C22: a matrix has, in configuration order, one entry per rawhide release
\* and per prerelease and two per stable release, with the repos, check and
\* with_testing of its release type; check is within repos, and every entry
\* carries the archived flag and the whole arch list of its release
C22_EntriesPerReleaseType ==
    Expanded /\ Matrix.ok =>
        LET called == CalledForFrom(call.cfg, 1)
            m      == Matrix.val
        IN  /\ Len(m) = Len(called)
            /\ \A i \in 1..Len(m) :
                  /\ m[i].release = called[i].release.name
                  /\ m[i].repos = called[i].triple[1]
                  /\ m[i].check = called[i].triple[2]
                  /\ m[i].with_testing = called[i].triple[3]
                  /\ Elems(m[i].check) \subseteq Elems(m[i].repos)
                  /\ m[i].archived = called[i].release.archived
                  /\ [a \in 1..Len(m[i].arches) |-> m[i].arches[a].name]
                        = called[i].release.arches

\* a stable release with updates was expanded after a rawhide release
C22_Witness ==
    /\ Expanded /\ Matrix.ok
    /\ call.cfg.repos = RepoConfigUpdates
    /\ Len(call.cfg.releases) = 2
    /\ call.cfg.releases[1].rtype = "rawhide"
    /\ call.cfg.releases[2].rtype = "stable"
    /\ call.cfg.releases[2].archived
    /\ Len(Matrix.val) = 3

\* C23: when a release lists an arch without an entry in the arch table the
\* expansion is an error that names that release and that arch, and there
\* is no matrix; otherwise it is Ok
C23_MissingArchIsError ==
    Expanded =>
        IF \E r \in 1..Len(call.cfg.releases) :
               Unresolved(call.cfg, call.cfg.releases[r]) # {}
        THEN /\ ~Matrix.ok
             /\ \E r \in 1..Len(call.cfg.releases) :
                   \E a \in Unresolved(call.cfg, call.cfg.releases[r]) :
                       Matrix.val = <<call.cfg.releases[r].name, a>>
        ELSE Matrix.ok

\* the second release lists the missing arch, the first one resolves
C23_Witness ==
    /\ Expanded
    /\ Len(call.cfg.releases) = 2
    /\ Unresolved(call.cfg, call.cfg.releases[1]) = {}
    /\ Unresolved(call.cfg, call.cfg.releases[2]) = {"s390x"}
    /\ ~Matrix.ok

\* ---------------------------------------------------------------------
\* The data route
\* ---------------------------------------------------------------------

\* C24: GET /data/<release> answers 200 with the published array when the
\* snapshot holds an array under that key at the read, and 404 otherwise
C24_DataRouteAnswers ==
    [][ReadData =>
          IF IsSome(MapGet(values, rd))
          THEN DataRoute(rd) = [status |-> "200", body |-> MapGet(values, rd)]
          ELSE DataRoute(rd).status = "404"]_vars

\* ---------------------------------------------------------------------
\* The write of the data file
\* ---------------------------------------------------------------------

\* C25: whatever happens to the write of the data file, the creation of the
\* data directory included, the worker goes on to publish its array and
\* the lock of the snapshot is left usable
C25_WriteFailureStillPublishes ==
    [][\A w \in DOMAIN wk :
          WorkerWriteFile(w) => (~poisoned' /\ wk'[w].pc = "insert")]_vars

\* ---------------------------------------------------------------------
\* The cached array of a key
\* ---------------------------------------------------------------------

KeyOf(w) == Pretty(matrix[w])

FileOf(w) == JsonPath(matrix[w].release, matrix[w].with_testing)

\* the data file of the worker's entry is there and holds an array
FileLoads(w) == FileOf(w) \in DOMAIN disk /\ disk[FileOf(w)].ok

\* the worker leaves its look at the data file for live generation
StartsGenerating(w) == wk[w].pc = "cache" /\ wk'[w].pc = "generate"

\* the worker's generation fails
GenerationFails(w) ==
    wk[w].pc = "generate" /\ wk'[w].pc = "done" /\ wk'[w].out = "error"

\* C26: a worker that found no array under its key publishes the array of
\* the data file, when it loads, before it starts generating, and nothing
\* when it does not load; the key is left as it is while the worker
\* generates and when its generation fails, so it serves the cached array
\* in the first case and stays absent in the second
C26_CacheServedUntilFresh ==
    [][\A w \in DOMAIN wk :
          /\ StartsGenerating(w) /\ FileLoads(w) =>
                /\ ~IsSome(MapGet(values, KeyOf(w)))
                /\ DataRoute(KeyOf(w))' =
                      [status |-> "200", body |-> Some(disk[FileOf(w)].data)]
          /\ StartsGenerating(w) /\ ~FileLoads(w) =>
                DataRoute(KeyOf(w))' = [status |-> "404", body |-> NoneOpt]
          /\ wk[w].pc = "generate" /\ (wk'[w].pc = "generate" \/ GenerationFails(w)) =>
                DataRoute(KeyOf(w))' = DataRoute(KeyOf(w))]_vars

\* the generation of a worker has failed and its key serves the array of
\* its data file, the first the key ever had
C26_Witness ==
    \E w \in DOMAIN wk :
        /\ wk[w].pc = "done" /\ wk[w].out = "error"
        /\ ~matrix[w].archived
        /\ KeyOf(w) \in DOMAIN published /\ published[KeyOf(w)] = "cache"
        /\ FileLoads(w)
        /\ DataRoute(KeyOf(w)) = [status |-> "200", body |-> Some(disk[FileOf(w)].data)]

\* ---------------------------------------------------------------------
\* The client of the package metadata service (get_admins)
\* ---------------------------------------------------------------------

MaxPages == 3

MaxAttempts == 4

\* retry::delay::Fibonacci::from_millis(1000): the delay before attempt
\* k + 1; the iterator never ends
RECURSIVE Fibonacci(_)
Fibonacci(k) ==
    IF k <= 2 THEN 1000 ELSE Fibonacci(k - 1) + Fibonacci(k - 2)

\* the remote serves `pages` pages of projects; the first url is page 1
InitAdmins ==
    /\ Parked
    /\ call \in [pages : 1..MaxPages,
                 url : {1},
                 attempts : {[p \in 1..MaxPages |-> 0]},
                 slept : {<<>>},
                 error : {""},
                 projects : {<<>>},
                 result : {NoneOpt}]

\* the closure `query` fails, in client.get(&url).send() or in
\* response.json(): retry sleeps for the next delay and calls it again
AdminsQueryFails(kind) ==
    /\ call.result = NoneOpt
    /\ call.attempts[call.url] < MaxAttempts - 1
    /\ call' = [call EXCEPT
                  !.attempts[call.url] = @ + 1,
                  !.error = kind,
                  !.slept = Append(@, Fibonacci(call.attempts[call.url] + 1))]
    /\ UNCHANGED programVars

\* the closure returns a page: its projects are taken and the loop goes on
\* with pagination.next, or ends when there is none
AdminsQueryOk ==
    /\ call.result = NoneOpt
    /\ call.attempts[call.url] < MaxAttempts
    /\ LET projects == Append(call.projects, call.url)
       IN  call' = [call EXCEPT
                      !.attempts[call.url] = @ + 1,
                      !.projects = projects,
                      !.url = IF call.url < call.pages THEN call.url + 1
                              ELSE call.url,
                      !.result = IF call.url < call.pages THEN NoneOpt
                                 ELSE Some(Ok(projects))]
    /\ UNCHANGED programVars

NextAdmins ==
    \/ AdminsQueryFails("send")
    \/ AdminsQueryFails("json")
    \/ AdminsQueryOk

SpecAdmins == InitAdmins /\ [][NextAdmins]_vars

\* C27: every remote request is issued at most once, and once a request or
\* the decoding of its body has failed get_admins has returned an error
C27_SingleAttempt ==
    /\ \A p \in 1..MaxPages : call.attempts[p] <= 1
    /\ call.error # "" => IsSome(call.result) /\ ~Unwrap(call.result).ok

\* ---------------------------------------------------------------------
\* The commands of one run of the orchestrator (get_repo_closure)
\* ---------------------------------------------------------------------

MaxChecked == 2

\* the arches of the entry, and the repositories it checks
RunArches ==
    { <<"x86_64">>, <<"aarch64">>, <<"x86_64", "aarch64">>,
      <<"aarch64", "x86_64">> }

RunChecks == { [i \in 1..n |-> i] : n \in 1..MaxChecked }

InitRun ==
    /\ Parked
    /\ call \in [arches : RunArches,
                 check : RunChecks,
                 pc : {"contents"},
                 arch : {1},
                 checked : {1},
                 commands : {<<>>},
                 result : {""}]

\* dnf is run with a subcommand for the arch the loop is at
Command(cmd) ==
    Append(call.commands, [cmd |-> cmd, arch |-> call.arches[call.arch]])

\* `?`: get_repo_closure returns the error
RunFails(cmd) ==
    call' = [call EXCEPT !.commands = Command(cmd), !.pc = "returned",
                         !.result = "Err"]

\* the first loop: get_repo_contents(release, arch, repos)? for every arch,
\* from which the excluded packages of every arch are worked out
RunContents(ok) ==
    /\ call.pc = "contents"
    /\ IF ~ok THEN RunFails("repoquery")
       ELSE call' = [call EXCEPT
                       !.commands = Command("repoquery"),
                       !.arch = IF call.arch < Len(call.arches) THEN @ + 1 ELSE 1,
                       !.pc = IF call.arch < Len(call.arches) THEN "contents"
                              ELSE "cache"]
    /\ UNCHANGED programVars

\* the last loop: make_cache(release, arch, repos)?
RunMakeCache(ok) ==
    /\ call.pc = "cache"
    /\ IF ~ok THEN RunFails("makecache")
       ELSE call' = [call EXCEPT !.commands = Command("makecache"),
                                 !.checked = 1,
                                 !.pc = "query"]
    /\ UNCHANGED programVars

\* get_repo_closure_arched_repo for one checked repository:
\* get_repo_contents(release, arch, repos)?
RunQuery(ok) ==
    /\ call.pc = "query"
    /\ IF ~ok THEN RunFails("repoquery")
       ELSE call' = [call EXCEPT !.commands = Command("repoquery"),
                                 !.pc = "closure"]
    /\ UNCHANGED programVars

\* get_repo_closure_arched_repo: dnf repoclosure --check <checked>; then the
\* next checked repository, the next arch, or the end of the run
RunClosure(ok) ==
    /\ call.pc = "closure"
    /\ IF ~ok THEN RunFails("repoclosure")
       ELSE LET more_checked == call.checked < Len(call.check)
                more_arches  == call.arch < Len(call.arches)
            IN  call' = [call EXCEPT
                           !.commands = Command("repoclosure"),
                           !.checked = IF more_checked THEN @ + 1 ELSE 1,
                           !.arch = IF ~more_checked /\ more_arches
                                    THEN @ + 1 ELSE @,
                           !.pc = IF more_checked THEN "query"
                                  ELSE IF more_arches THEN "cache"
                                  ELSE "returned",
                           !.result = IF more_checked \/ more_arches THEN ""
                                      ELSE "Ok"]
    /\ UNCHANGED programVars

NextRun ==
    \E ok \in BOOLEAN :
        \/ RunContents(ok)
        \/ RunMakeCache(ok)
        \/ RunQuery(ok)
        \/ RunClosure(ok)

SpecRun == InitRun /\ [][NextRun]_vars

\* C28: in the commands of a run, for every arch the cache refresh comes
\* before every content enumeration of that arch, every closure check of an
\* arch comes after a content enumeration of it, and the commands of an
\* arch are not interleaved with those of another
C28_CacheContentsClosureInOrder ==
    LET c == call.commands
    IN  \A i, j \in DOMAIN c :
            c[i].arch = c[j].arch =>
               /\ c[i].cmd = "repoquery" /\ c[j].cmd = "makecache" => j < i
               /\ c[j].cmd = "repoclosure" =>
                     \E k \in 1..(j - 1) :
                         c[k].arch = c[j].arch /\ c[k].cmd = "repoquery"
               /\ \A k \in DOMAIN c : i < k /\ k < j => c[k].arch = c[i].arch

\* ---------------------------------------------------------------------
\* The reload step and the workers of a cycle
\* ---------------------------------------------------------------------

\* the reload task of the current cycle is between its first and its last
\* load
ReloadRunning == wt[cycle] \in 1..4

\* C29: once the scheduler has taken the configuration snapshot of a cycle
\* and spawns or awaits its workers, the reload step of that cycle has run
\* to its end
C29_ReloadEndsBeforeWorkers ==
    schedPc \in {"spawn", "await"} => ~ReloadRunning

\* ---------------------------------------------------------------------
\* The keys of the hit counters
\* ---------------------------------------------------------------------

\* C30: a lookup that returns true increments the counter of a leaf as it
\* was seeded at load, and after any lookups the keys of stats are the leaf
\* paths of the tree
C30_StatsKeysAreLeafPaths ==
    IsSome(call.ov) =>
        /\ DOMAIN StatsNow = SeedPaths(call.file)
        /\ Asked /\ call.found =>
              \E leaf \in SeedPaths(call.file) :
                  /\ leaf \in DOMAIN call.before
                  /\ StatsNow[leaf] = call.before[leaf] + 1

\* ---------------------------------------------------------------------
\* The two locks: the snapshot (GlobalState = Arc<RwLock<State>>) and the
\* override engine it holds (State.overrides: Arc<RwLock<Overrides>>), as
\* the workers, the reload step and the handlers of /overrides and /stats
\* take them
\* ---------------------------------------------------------------------

MaxWorkerLookups == 2

LockWorkers == {"w1", "w2"}

LockTasks == LockWorkers \cup {"reload", "overrides", "stats"}

\* the override file the service started with, and the edited file a reload
\* finds
EngineFileStart ==
    [all |-> [all |-> <<>>, x86_64 |-> <<>>],
     f32 |-> [all |-> <<>>, x86_64 |-> [libfoo |-> Packages(<<"foo">>)]]]

EngineFileEdited ==
    [all |-> [all |-> <<>>, x86_64 |-> <<>>],
     f32 |-> [all |-> <<>>, x86_64 |-> [libfoo |-> AllEntry]]]

\* Arc::new(RwLock::new(overrides)): an engine behind its own lock, with
\* the number of its lookups that returned true
NewEngine(ov) == [ov |-> ov, writer |-> "", readers |-> {}, hits |-> 0]

\* RwLock::read returns when no writer holds the lock
ReadFree(writer) == writer = ""

\* RwLock::write returns when nobody holds the lock
WriteFree(writer, readers) == writer = "" /\ readers = {}

InitLocks ==
    /\ Parked
    /\ call = [writer |-> "", readers |-> {},
               current |-> 1,
               engines |-> << NewEngine(LoadFromDisk(EngineFileStart)) >>,
               pc |-> [t \in LockTasks |-> "start"],
               handle |-> [t \in LockTasks |-> 0],
               left |-> [t \in LockWorkers |-> MaxWorkerLookups],
               used |-> [t \in LockWorkers |-> {}],
               reloaded |-> ""]

\* `let guard = state.read()` of the worker's block that clones the engine
\* handle
HandleRead(t) ==
    /\ call.pc[t] = "start"
    /\ ReadFree(call.writer)
    /\ call' = [call EXCEPT !.readers = @ \cup {t}, !.pc[t] = "cloning"]
    /\ UNCHANGED programVars

\* the guard kept after the block
GuardKept(readers, t) == readers

\* the guard is dropped at the end of the block
GuardDropped(readers, t) == readers \ {t}

\* `state.overrides.clone()`, and the end of the block
HandleClone(t) ==
    /\ call.pc[t] = "cloning"
    /\ call' = [call EXCEPT !.handle[t] = call.current,
                            !.readers = GuardDropped(@, t),
                            !.pc[t] = "orchestrate"]
    /\ UNCHANGED programVars

\* the engine of the snapshot at the time of the lookup
EngineOfSnapshot(t) == call.current

\* the engine a worker's lookups go to: the handle it cloned
EngineOf(t) == call.handle[t]

\* is_overridden takes the write side of the engine for one lookup
LookupLock(t) ==
    LET e == EngineOf(t)
    IN  /\ call.pc[t] = "orchestrate"
        /\ call.left[t] > 0
        /\ WriteFree(call.engines[e].writer, call.engines[e].readers)
        /\ call' = [call EXCEPT !.engines[e].writer = t,
                                !.pc[t] = "lookup"]
        /\ UNCHANGED programVars

\* Overrides::lookup(&mut self, ..) under that guard, which is then dropped
LookupRun(t, package, broken) ==
    LET e == CHOOSE i \in 1..Len(call.engines) : call.engines[i].writer = t
        res == Lookup(call.engines[e].ov, "f32", "x86_64", package, broken)
    IN  /\ call.pc[t] = "lookup"
        /\ call' = [call EXCEPT
                      !.engines[e].ov = res.ov,
                      !.engines[e].hits = IF res.found THEN @ + 1 ELSE @,
                      !.engines[e].writer = "",
                      !.used[t] = @ \cup {e},
                      !.left[t] = @ - 1,
                      !.pc[t] = "orchestrate"]
        /\ UNCHANGED programVars

\* `let mut guard = state.write()` of the publish block
PublishLock(t) ==
    /\ call.pc[t] = "orchestrate"
    /\ call.left[t] = 0
    /\ WriteFree(call.writer, call.readers)
    /\ call' = [call EXCEPT !.writer = t, !.pc[t] = "publish"]
    /\ UNCHANGED programVars

\* the end of the publish block and of the worker
PublishUnlock(t) ==
    /\ call.pc[t] = "publish"
    /\ call' = [call EXCEPT !.writer = "", !.pc[t] = "done"]
    /\ UNCHANGED programVars

\* Overrides::load_from_disk() fails: the error is logged, no lock is taken
ReloadOverridesFails ==
    /\ call.pc["reload"] = "start"
    /\ call' = [call EXCEPT !.pc["reload"] = "done", !.reloaded = "err"]
    /\ UNCHANGED programVars

\* it succeeds: `let mut guard = state.write()`
ReloadOverridesLock ==
    /\ call.pc["reload"] = "start"
    /\ WriteFree(call.writer, call.readers)
    /\ call' = [call EXCEPT !.writer = "reload", !.pc["reload"] = "install"]
    /\ UNCHANGED programVars

\* `state.overrides = Arc::new(RwLock::new(overrides))`
ReloadOverridesInstall ==
    /\ call.pc["reload"] = "install"
    /\ call' = [call EXCEPT
                  !.engines = Append(@, NewEngine(LoadFromDisk(EngineFileEdited))),
                  !.current = Len(call.engines) + 1,
                  !.writer = "",
                  !.pc["reload"] = "done",
                  !.reloaded = "ok"]
    /\ UNCHANGED programVars

\* a handler takes the read side of the snapshot
RouteSnapshot(t) ==
    /\ t \in {"overrides", "stats"}
    /\ call.pc[t] = "start"
    /\ ReadFree(call.writer)
    /\ call' = [call EXCEPT !.readers = @ \cup {t}, !.pc[t] = "snapshot"]
    /\ UNCHANGED programVars

\* /overrides: `state.overrides.read()` while the snapshot guard is held
RouteOverridesEngine ==
    LET e == call.current
    IN  /\ call.pc["overrides"] = "snapshot"
        /\ ReadFree(call.engines[e].writer)
        /\ call' = [call EXCEPT !.engines[e].readers = @ \cup {"overrides"},
                                !.handle["overrides"] = e,
                                !.pc["overrides"] = "engine"]
        /\ UNCHANGED programVars

\* /overrides: the data is serialised and both guards are dropped
RouteOverridesRespond ==
    LET e == call.handle["overrides"]
    IN  /\ call.pc["overrides"] = "engine"
        /\ call' = [call EXCEPT !.engines[e].readers = @ \ {"overrides"},
                                !.readers = @ \ {"overrides"},
                                !.pc["overrides"] = "done"]
        /\ UNCHANGED programVars

\* /stats: `state.overrides.clone()`, and the snapshot guard is dropped
RouteStatsClone ==
    /\ call.pc["stats"] = "snapshot"
    /\ call' = [call EXCEPT !.handle["stats"] = call.current,
                            !.readers = @ \ {"stats"},
                            !.pc["stats"] = "cloned"]
    /\ UNCHANGED programVars

\* /stats: `values.read()` on the cloned handle
RouteStatsEngine ==
    LET e == call.handle["stats"]
    IN  /\ call.pc["stats"] = "cloned"
        /\ ReadFree(call.engines[e].writer)
        /\ call' = [call EXCEPT !.engines[e].readers = @ \cup {"stats"},
                                !.pc["stats"] = "engine"]
        /\ UNCHANGED programVars

\* /stats: the counters are serialised and the guard is dropped
RouteStatsRespond ==
    LET e == call.handle["stats"]
    IN  /\ call.pc["stats"] = "engine"
        /\ call' = [call EXCEPT !.engines[e].readers = @ \ {"stats"},
                                !.pc["stats"] = "done"]
        /\ UNCHANGED programVars

NextLocks ==
    \/ \E t \in LockWorkers :
          \/ HandleRead(t)
          \/ HandleClone(t)
          \/ LookupLock(t)
          \/ \E package \in {"foo", "bar"} : LookupRun(t, package, "libfoo")
          \/ PublishLock(t)
          \/ PublishUnlock(t)
    \/ ReloadOverridesFails
    \/ ReloadOverridesLock
    \/ ReloadOverridesInstall
    \/ \E t \in {"overrides", "stats"} : RouteSnapshot(t)
    \/ RouteOverridesEngine
    \/ RouteOverridesRespond
    \/ RouteStatsClone
    \/ RouteStatsEngine
    \/ RouteStatsRespond

SpecLocks == InitLocks /\ [][NextLocks]_vars

\* the workers of the cycle have all returned
WorkersDone == \A t \in LockWorkers : call.pc[t] = "done"

CountersZero(ov) == \A p \in DOMAIN ov.stats : ov.stats[p] = 0

\* C38: the lookups of a worker all go to the engine whose handle it cloned
\* before orchestration, also after a reload has put another engine in the
\* snapshot; a reload that succeeds installs a new engine with all counters
\* zero and leaves the old engines as they are, a reload that fails leaves
\* the snapshot's engine and its counters as they are
C38_LookupsUseClonedHandle ==
    [][/\ \A t \in LockWorkers : call.used'[t] \subseteq {call.handle'[t]}
       /\ ReloadOverridesInstall =>
             /\ call.current' = Len(call.engines) + 1
             /\ CountersZero(call.engines'[call.current'].ov)
             /\ call.engines'[call.current'].ov.data = EngineFileEdited
             /\ SubSeq(call.engines', 1, Len(call.engines)) = call.engines
       /\ ReloadOverridesFails =>
             /\ call.current' = call.current
             /\ call.engines' = call.engines]_vars

\* a worker is in a lookup on the engine it cloned, which has counted a
\* hit, after a reload has installed the second engine
C38_Witness ==
    \E t \in LockWorkers :
        /\ call.pc[t] = "lookup"
        /\ call.handle[t] = 1
        /\ call.engines[1].writer = t
        /\ call.used[t] = {1}
        /\ call.engines[1].hits >= 1
        /\ call.current = 2

\* the task holds a guard of the snapshot lock, or of an engine's lock
HoldsSnapshot(t) == call.writer = t \/ t \in call.readers

HoldsEngine(t) ==
    \E e \in 1..Len(call.engines) :
        call.engines[e].writer = t \/ t \in call.engines[e].readers

\* the next step of the task takes the write side, or a side, of the
\* snapshot lock
RequestsSnapshotWrite(t) ==
    \/ t \in LockWorkers /\ call.pc[t] = "orchestrate" /\ call.left[t] = 0
    \/ t = "reload" /\ call.pc[t] = "start"

RequestsSnapshot(t) ==
    \/ RequestsSnapshotWrite(t)
    \/ t # "reload" /\ call.pc[t] = "start"

\* some task has not finished and no task can take a step
Deadlocked ==
    /\ \E t \in LockTasks : call.pc[t] # "done"
    /\ ~ENABLED NextLocks

\* C40: no task asks for the snapshot lock while it holds an engine's lock,
\* none asks for the write side of the snapshot lock while it holds a guard
\* of it, and the tasks never come to a stop before all have finished
C40_NoDeadlockOnTwoLocks ==
    /\ \A t \in LockTasks :
          /\ RequestsSnapshot(t) => ~HoldsEngine(t)
          /\ RequestsSnapshotWrite(t) => ~HoldsSnapshot(t)
    /\ ~Deadlocked

\* /overrides holds the read side of both locks while a worker waits for
\* the write side of that engine and the reload for the write side of the
\* snapshot
C40_Witness ==
    /\ call.pc["overrides"] = "engine"
    /\ HoldsSnapshot("overrides") /\ HoldsEngine("overrides")
    /\ call.pc["reload"] = "start"
    /\ \E t \in LockWorkers :
          /\ call.pc[t] = "orchestrate" /\ call.left[t] > 0
          /\ "overrides" \in call.engines[call.handle[t]].readers

\* ---------------------------------------------------------------------
\* The closure parser on malformed output
\* ---------------------------------------------------------------------

MaxTextLines == 3

\* a line of closure output, and what it is: a `package: ` line that opens
\* a record, one that cannot, a four-space line, or a line of no account
TextLines ==
    { [line |-> PackagePrefix \o <<"a", "-", "1", "-", "2", ".", "x", " ",
                                   "f", "r", "o", "m", " ", "r">>,
       kind |-> "opens"],
      [line |-> PackagePrefix \o <<"a", "-", "1", "-", "2", ".", "x", " ",
                                   "f", "r", "o", "m", " ", "r", " ", "t">>,
       kind |-> "opens"],
      [line |-> PackagePrefix \o <<"a", "-", "1", "-", "2", ".", "x", " ",
                                   "f", "r", "o", "m">>,
       kind |-> "rejected"],
      [line |-> PackagePrefix, kind |-> "rejected"],
      [line |-> PackagePrefix \o <<"a", "-", "1", "-", "2", " ",
                                   "f", "r", "o", "m", " ", "r">>,
       kind |-> "rejected"],
      [line |-> PackagePrefix \o <<"a", "-", "1", ".", "x", " ",
                                   "f", "r", "o", "m", " ", "r">>,
       kind |-> "rejected"],
      [line |-> FourSpaces \o <<"l">>, kind |-> "dep"],
      [line |-> DepsPrefix, kind |-> "other"],
      [line |-> <<"z">>, kind |-> "other"],
      [line |-> <<>>, kind |-> "other"] }

InitText ==
    /\ Parked
    /\ call \in [text : SeqsUpTo(TextLines, MaxTextLines) \ {<<>>},
                 parsed : {NoneOpt}]

\* parse_repoclosure is applied to the text
TextParse ==
    /\ call.parsed = NoneOpt
    /\ call' = [call EXCEPT !.parsed =
                   Some(ParseRepoclosure(
                           Join([i \in DOMAIN call.text |-> call.text[i].line])))]
    /\ UNCHANGED programVars

NextText == TextParse

SpecText == InitText /\ [][NextText]_vars

\* line i is a four-space line and no `package: ` line has opened a record
\* before it
DepWithoutRecord(i) ==
    /\ call.text[i].kind = "dep"
    /\ \A j \in 1..(i - 1) : call.text[j].kind # "opens"

\* C32: the parse is an error, with no list of records, when a four-space
\* line comes before any record was opened, or when a `package: ` line has
\* fewer than four tokens or a NEVRA that parse_nevra rejects; otherwise it
\* is Ok with one record per `package: ` line
C32_MalformedOutputIsError ==
    IsSome(call.parsed) =>
        LET out == Unwrap(call.parsed)
        IN  IF \E i \in DOMAIN call.text :
                   call.text[i].kind = "rejected" \/ DepWithoutRecord(i)
            THEN ~out.ok
            ELSE /\ out.ok
                 /\ Len(out.val) =
                       Cardinality({i \in DOMAIN call.text :
                                       call.text[i].kind = "opens"})

\* a record was opened and given a capability, then a `package: ` line that
\* cannot open a record followed
C32_Witness ==
    /\ IsSome(call.parsed)
    /\ Len(call.text) = 3
    /\ call.text[1].kind = "opens"
    /\ call.text[2].kind = "dep"
    /\ call.text[3].kind = "rejected"
    /\ ~Unwrap(call.parsed).ok

\* ---------------------------------------------------------------------
\* parse_nevra on arbitrary input
\* ---------------------------------------------------------------------

MaxNevraLen == 5

InitNevraText ==
    /\ Parked
    /\ call \in [nevra : Strings({"a", "-", ".", ":"}, MaxNevraLen),
                 parsed : {NoneOpt}]

\* parse_nevra is applied to the input
NevraTextParse ==
    /\ call.parsed = NoneOpt
    /\ call' = [call EXCEPT !.parsed = Some(ParseNevra(call.nevra))]
    /\ UNCHANGED programVars

NextNevraText == NevraTextParse

SpecNevraText == InitNevraText /\ [][NextNevraText]_vars

\* the places of character c in s
Places(s, c) == {i \in DOMAIN s : s[i] = c}

\* the input has a `.` and at least two `-` before its last `.`
HasArchAndTwoDashes(s) ==
    /\ Places(s, ".") # {}
    /\ LET dot == CHOOSE i \in Places(s, ".") : \A j \in Places(s, ".") : j <= i
       IN  Cardinality({i \in Places(s, "-") : i < dot}) >= 2

\* text occurs in message
OccursIn(text, message) ==
    \E at \in 0..(Len(message) - Len(text)) :
        SubSeq(message, at + 1, at + Len(text)) = text

\* C33: parse_nevra returns an error exactly when the input has no `.` or
\* fewer than two `-` before its last `.`, and the message of the error
\* contains the input; otherwise it returns the five fields
C33_NevraErrorNamesInput ==
    IsSome(call.parsed) =>
        LET out == Unwrap(call.parsed)
        IN  IF HasArchAndTwoDashes(call.nevra)
            THEN out.ok /\ DOMAIN out.val = {"n", "e", "v", "r", "a"}
            ELSE ~out.ok /\ OccursIn(call.nevra, out.val)

(***************************************************************************)
(* The orchestrator and the external tool (repo.rs): one entry of one arch *)
(* is run, every dnf command being given what dnf did: whether it could be *)
(* started, its exit status and its standard output.                       *)
(***************************************************************************)
\* the strings of this part, and their characters
TextOf ==
    [foo |-> <<"f", "o", "o">>, bar |-> <<"b", "a", "r">>,
     src |-> <<"s", "r", "c">>, noarch |-> <<"n", "o", "a", "r", "c", "h">>,
     fedora |-> <<"f", "e", "d", "o", "r", "a">>,
     updates |-> <<"u", "p", "d", "a", "t", "e", "s">>,
     libfoo |-> <<"l", "i", "b", "f", "o", "o">>]
    @@ ("0" :> <<"0">>) @@ ("1" :> <<"1">>) @@ ("2" :> <<"2">>)

\* str::to_string: the owned String of a slice of the output
AsString(chars) == CHOOSE s \in DOMAIN TextOf : TextOf[s] = chars

\* std::process::Output, or the error of Command::output
DnfOutputs(stdouts) ==
    { [spawned |-> FALSE, success |-> FALSE, stdout |-> <<>>] } \cup
    { [spawned |-> TRUE, success |-> success, stdout |-> stdout] :
        success \in BOOLEAN, stdout \in stdouts }

\* a line of dnf repoquery: "name source epoch version release arch"
ListingLine(name, source, arch) ==
    JoinWith(<<TextOf[name], TextOf[source], <<"0">>, <<"1">>, <<"2">>,
               TextOf[arch]>>, " ")

\* what dnf repoquery can print: nothing, white space, or a listing
ListingTexts ==
    { <<>>,
      <<" ", "\n">>,
      ListingLine("foo", "foo", "noarch") \o <<"\n">> \o
          ListingLine("foo", "foo", "src") \o <<"\n">>,
      ListingLine("bar", "foo", "noarch"),
      ListingLine("foo", "foo", "noarch") \o <<"\n">> \o
          ListingLine("bar", "foo", "noarch") }

\* a block of dnf repoclosure for name-1-2.arch, one capability missing
ClosureBlock(name, arch, repo) ==
    PackagePrefix \o TextOf[name] \o <<"-", "1", "-", "2", ".">> \o
    TextOf[arch] \o <<" ", "f", "r", "o", "m", " ">> \o TextOf[repo] \o
    <<"\n">> \o DepsPrefix \o <<"\n">> \o FourSpaces \o TextOf["libfoo"]

\* what dnf repoclosure --check repo can print
ClosureTexts(repo) ==
    { <<>>,
      ClosureBlock("foo", "noarch", repo),
      ClosureBlock("foo", "src", repo),
      ClosureBlock("bar", "noarch", repo) \o <<"\n">> }

\* the `check` lists of the entry
DnfChecks == { <<"fedora">>, <<"fedora", "updates">>, <<"updates", "fedora">> }

\* the administrators: of foo, or of no package
DnfAdmins == { StartAdmins, <<>> }

\* make_cache: dnf makecache --refresh
MakeCache(output) ==
    IF ~output.spawned THEN Err("failed to run dnf")
    ELSE IF ~output.success
    THEN Err("dnf makecache exited with an error code.")
    ELSE Ok(<<>>)

\* get_repo_contents: dnf repoquery, and the parse of its trimmed output
GetRepoContents(output) ==
    IF ~output.spawned THEN Err("failed to run dnf")
    ELSE IF ~output.success
    THEN Err("dnf repoquery exited with an error code.")
    ELSE ParseContents(output.stdout)

\* get_source_map: binary name -> source name, src packages left out, a
\* later line of the listing replacing an earlier one
RECURSIVE GetSourceMap(_)
GetSourceMap(contents) ==
    IF contents = <<>> THEN <<>>
    ELSE LET package == contents[Len(contents)]
             map == GetSourceMap(SubSeq(contents, 1, Len(contents) - 1))
         IN  IF package.arch = TextOf["src"] THEN map
             ELSE MapInsert(map, package.name, package.source_name)

\* state_to_dep of get_repo_closure_arched_repo: the source of a src
\* package is its own name, that of another one is looked up and must be
\* there; the administrator is looked up, "(N/A)" standing for none
BrokenDep(state, source_map, admins_map, arch) ==
    LET source == IF state.arch = TextOf["src"] THEN Some(state.package)
                  ELSE MapGet(source_map, state.package)
        admin == IF IsSome(source)
                 THEN MapGet(admins_map, AsString(Unwrap(source))) ELSE NoneOpt
    IN  IF ~IsSome(source) THEN Err("Unable to find source package")
        ELSE Ok([package |-> AsString(state.package),
                 epoch |-> AsString(state.epoch),
                 version |-> AsString(state.version),
                 release |-> AsString(state.release),
                 arch |-> AsString(state.arch),
                 repo_arch |-> arch,
                 repo |-> AsString(state.repo),
                 source |-> AsString(Unwrap(source)),
                 broken |-> [i \in DOMAIN state.broken |->
                               AsString(state.broken[i])],
                 admin |-> IF IsSome(admin) THEN Unwrap(admin)
                           ELSE "(N/A)"])

\* a record whose source is not found is left out
RECURSIVE BrokenDepsSkipping(_, _, _, _)
BrokenDepsSkipping(states, source_map, admins_map, arch) ==
    IF states = <<>> THEN Ok(<<>>)
    ELSE LET first == BrokenDep(Head(states), source_map, admins_map, arch)
             rest == BrokenDepsSkipping(Tail(states), source_map, admins_map, arch)
         IN  IF ~first.ok THEN rest
             ELSE Ok(<<first.val>> \o rest.val)

\* broken_deps.push(state_to_dep(status)?) for the states in their order
RECURSIVE BrokenDeps(_, _, _, _)
BrokenDeps(states, source_map, admins_map, arch) ==
    IF states = <<>> THEN Ok(<<>>)
    ELSE LET first == BrokenDep(Head(states), source_map, admins_map, arch)
             rest == BrokenDeps(Tail(states), source_map, admins_map, arch)
         IN  IF ~first.ok THEN first
             ELSE IF ~rest.ok THEN rest
             ELSE Ok(<<first.val>> \o rest.val)

\* a closure check that exits with an error code is an error
ClosureRecordsChecked(output, contents, admins_map, arch) ==
    IF ~output.spawned \/ ~output.success THEN Err("failed to run dnf")
    ELSE LET states == ParseRepoclosure(Trim(output.stdout))
         IN  IF ~states.ok THEN states
             ELSE BrokenDeps(states.val, GetSourceMap(contents), admins_map, arch)

\* get_repo_closure_arched_repo from dnf repoclosure on: the exit status is
\* not looked at; the trimmed output goes through the loop of
\* parse_repoclosure, every record through state_to_dep
ClosureRecords(output, contents, admins_map, arch) ==
    IF ~output.spawned THEN Err("failed to run dnf")
    ELSE LET states == ParseRepoclosure(Trim(output.stdout))
         IN  IF ~states.ok THEN states
             ELSE BrokenDeps(states.val, GetSourceMap(contents), admins_map, arch)

\* the packages of a listing as the exclusion filter reads them
Listed(contents) ==
    [i \in DOMAIN contents |->
        Package(AsString(contents[i].name), AsString(contents[i].source_name),
                AsString(contents[i].arch))]

InitDnf ==
    /\ Parked
    /\ call \in [check : DnfChecks,
                 admins : DnfAdmins,
                 pc : {"contents"},
                 checked : {1},
                 listing : {<<>>},
                 contents : {<<>>},
                 all_broken : {<<>>},
                 runs : {<<>>},
                 result : {NoneOpt}]

\* the command, what dnf did, and the repository a closure checked
DnfRun(cmd, output) ==
    Append(call.runs, [cmd |-> cmd, output |-> output,
                       checked |-> call.check[call.checked]])

\* `?`: get_repo_closure returns the error
DnfReturns(cmd, output, error) ==
    call' = [call EXCEPT !.runs = DnfRun(cmd, output), !.pc = "returned",
                         !.result = Some(error)]

\* the first loop of get_repo_closure: get_repo_contents(..)? of the arch
DnfContents(output) ==
    /\ call.pc = "contents"
    /\ LET contents == GetRepoContents(output)
       IN  IF ~contents.ok THEN DnfReturns("repoquery", output, contents)
           ELSE call' = [call EXCEPT !.runs = DnfRun("repoquery", output),
                                     !.listing = Listed(contents.val),
                                     !.pc = "cache"]
    /\ UNCHANGED programVars

\* the last loop: make_cache(release, arch, repos)?
DnfMakeCache(output) ==
    /\ call.pc = "cache"
    /\ LET made == MakeCache(output)
       IN  IF ~made.ok THEN DnfReturns("makecache", output, made)
           ELSE call' = [call EXCEPT !.runs = DnfRun("makecache", output),
                                     !.pc = "query"]
    /\ UNCHANGED programVars

\* get_repo_closure_arched_repo: get_repo_contents(release, arch, repos)?
DnfQuery(output) ==
    /\ call.pc = "query"
    /\ LET contents == GetRepoContents(output)
       IN  IF ~contents.ok THEN DnfReturns("repoquery", output, contents)
           ELSE call' = [call EXCEPT !.runs = DnfRun("repoquery", output),
                                     !.contents = contents.val,
                                     !.pc = "closure"]
    /\ UNCHANGED programVars

\* get_repo_closure_arched_repo: dnf repoclosure --check <checked>, then
\* all_broken.extend(broken) and the next checked repository; behind the
\* last one the rest of get_repo_closure: the exclusion filter, the override
\* filter, the removal of the empty records and the sort
DnfClosure(output) ==
    /\ call.pc = "closure"
    /\ LET broken == ClosureRecords(output, call.contents, call.admins,
                                    "x86_64")
       IN  IF ~broken.ok THEN DnfReturns("repoclosure", output, broken)
           ELSE LET all_broken == call.all_broken \o broken.val
                IN  call' = [call EXCEPT
                       !.runs = DnfRun("repoclosure", output),
                       !.all_broken = all_broken,
                       !.checked = IF @ < Len(call.check) THEN @ + 1 ELSE @,
                       !.pc = IF call.checked < Len(call.check) THEN "query"
                              ELSE "returned",
                       !.result =
                           IF call.checked < Len(call.check) THEN NoneOpt
                           ELSE Some(GetRepoClosure("f32", <<call.listing>>,
                                                    <<Ok(all_broken)>>,
                                                    StartOverrides))]
    /\ UNCHANGED programVars

NextDnf ==
    \/ \E output \in DnfOutputs(ListingTexts) : DnfContents(output)
    \/ \E output \in DnfOutputs({<<>>}) : DnfMakeCache(output)
    \/ \E output \in DnfOutputs(ListingTexts) : DnfQuery(output)
    \/ \E output \in DnfOutputs(ClosureTexts(call.check[call.checked])) :
          DnfClosure(output)

SpecDnf == InitDnf /\ [][NextDnf]_vars

\* the records that stand in the output of run i, a closure check, given the
\* listing the run before it printed
StdoutRecords(i) ==
    LET states == ParseRepoclosure(Trim(call.runs[i].output.stdout))
        contents == ParseContents(call.runs[i - 1].output.stdout)
    IN  IF ~states.ok THEN states
        ELSE BrokenDeps(states.val, GetSourceMap(contents.val), call.admins,
                        "x86_64")

\* the records of the closure checks among the first n runs, in their order
RECURSIVE RecordsUpTo(_)
RecordsUpTo(n) ==
    IF n = 0 THEN <<>>
    ELSE RecordsUpTo(n - 1) \o
         IF /\ call.runs[n].cmd = "repoclosure"
            /\ call.runs[n].output.spawned
            /\ StdoutRecords(n).ok
         THEN StdoutRecords(n).val ELSE <<>>

\* the run has ended in an error
DnfFailed ==
    call.pc = "returned" /\ IsSome(call.result) /\ ~Unwrap(call.result).ok

\* C34: a cache refresh or a content enumeration that exits with an error
\* code ends the run of the entry in an error; a closure check is not
\* judged by its exit status, the records in its output are taken whatever
\* it is; the closure checks are run once per element of `check`, in the
\* order of `check`, and their records are concatenated in that order
C34_ExitStatusFatalExceptClosure ==
    LET runs == call.runs
        closures == SelectSeq(runs, LAMBDA r : r.cmd = "repoclosure")
    IN  /\ \A i \in DOMAIN runs :
              /\ runs[i].cmd \in {"makecache", "repoquery"}
              /\ runs[i].output.spawned
              /\ ~runs[i].output.success
              => i = Len(runs) /\ DnfFailed
        /\ \A i \in DOMAIN runs :
              /\ runs[i].cmd = "repoclosure"
              /\ runs[i].output.spawned
              /\ StdoutRecords(i).ok
              => ~(i = Len(runs) /\ DnfFailed)
        /\ call.all_broken = RecordsUpTo(Len(runs))
        /\ [j \in DOMAIN closures |-> closures[j].checked] =
              SubSeq(call.check, 1, Len(closures))
        /\ (IsSome(call.result) /\ Unwrap(call.result).ok)
              => Len(closures) = Len(call.check)

\* both closure checks of an entry exited with an error code and printed a
\* record, and the run returned the two records
C34_Witness ==
    /\ call.pc = "returned"
    /\ Unwrap(call.result).ok
    /\ Len(call.check) = 2
    /\ \A i \in DOMAIN call.runs :
          call.runs[i].cmd = "repoclosure" => ~call.runs[i].output.success
    /\ Len(call.all_broken) = 2
    /\ call.all_broken[1].repo = call.check[1]
    /\ call.all_broken[2].repo = call.check[2]
    /\ Len(Unwrap(call.result).val) = 2

\* the output of run i, a closure check, has a record of a package that is
\* not src and that the listing of the run before it does not have among
\* its packages that are not src
MissingSource(i) ==
    LET states == ParseRepoclosure(Trim(call.runs[i].output.stdout)).val
        contents == ParseContents(call.runs[i - 1].output.stdout).val
    IN  \E k \in DOMAIN states :
           /\ states[k].arch # <<"s", "r", "c">>
           /\ \A p \in DOMAIN contents :
                 contents[p].arch # <<"s", "r", "c">>
                    => contents[p].name # states[k].package

\* C35: a closure check whose output names a package that is not src and is
\* not in the source map of the listing of the same arch ends the run of
\* the entry in an error, and nothing else in a record does; a src record
\* has its own name as its source, and the administrator of a record is the
\* one of its source, or "(N/A)" when there is none
C35_MissingSourceIsError ==
    /\ \A i \in DOMAIN call.runs :
          call.runs[i].cmd = "repoclosure" /\ call.runs[i].output.spawned
             => (MissingSource(i) <=> (i = Len(call.runs) /\ DnfFailed))
    /\ \A k \in DOMAIN call.all_broken :
          LET item == call.all_broken[k]
          IN  /\ item.arch = "src" => item.source = item.package
              /\ item.admin = IF item.source \in DOMAIN call.admins
                              THEN call.admins[item.source] ELSE "(N/A)"

\* nobody administers foo: the first closure check reported the src package
\* foo, which the listing does not have, and its record was taken with
\* "(N/A)"; the second reported a binary package the listing does not have,
\* and the run ended in an error
C35_Witness ==
    /\ DnfFailed
    /\ call.runs[Len(call.runs)].cmd = "repoclosure"
    /\ call.runs[Len(call.runs)].output.spawned
    /\ MissingSource(Len(call.runs))
    /\ Len(call.all_broken) = 1
    /\ call.all_broken[1].arch = "src"
    /\ call.all_broken[1].admin = "(N/A)"
    /\ \A p \in DOMAIN call.listing : call.listing[p].arch # "src"

\* run i is a content enumeration that exited with success and printed
\* nothing but white space
EmptyListing(i) ==
    /\ call.runs[i].cmd = "repoquery"
    /\ call.runs[i].output.spawned
    /\ call.runs[i].output.success
    /\ Trim(call.runs[i].output.stdout) = <<>>

\* C39: when the trimmed output of a content enumeration is empty, the
\* parse of the listing is an error, not an empty list of packages, and the
\* run of the entry ends in an error with that enumeration
C39_EmptyListingIsError ==
    \A i \in DOMAIN call.runs :
        EmptyListing(i) =>
            /\ ~ParseContents(call.runs[i].output.stdout).ok
            /\ i = Len(call.runs)
            /\ DnfFailed

\* the first enumeration of the entry printed white space only
C39_Witness ==
    /\ Len(call.runs) = 1
    /\ EmptyListing(1)
    /\ call.runs[1].output.stdout # <<>>
    /\ call.pc = "returned"

\* C36: in every array of the snapshot no two records have the same
\* (package, repo, repo_arch)
C36_RecordKeysUnique ==
    \A key \in DOMAIN values :
        \A i, j \in DOMAIN values[key] :
            SameKey(values[key][i], values[key][j]) => i = j

\* the index lists the key
Indexed(key) ==
    /\ IndexRoute.status = "200"
    /\ \E i \in DOMAIN Unwrap(IndexRoute.body).releases :
          Unwrap(IndexRoute.body).releases[i] = key

\* C37: a key that has had an array is in the snapshot in every state in
\* which the snapshot can be read, that is whenever no worker holds the
\* write guard, whatever the configuration has become; GET /data/<key>
\* answers 200 and the index lists the key
C37_PublishedKeysStay ==
    (LockFree /\ published # <<>>) =>
        LET index == IndexRoute
        IN  \A key \in DOMAIN published :
                /\ key \in DOMAIN values
                /\ ~poisoned
                /\ DataRoute(key).status = "200"
                /\ index.status = "200"
                /\ \E i \in DOMAIN Unwrap(index.body).releases :
                      Unwrap(index.body).releases[i] = key

\* the release f31 was dropped from the configuration by a reload, the
\* matrix of the cycle has no entry for it, f32 has been published again in
\* that cycle, and f31 is still served
C37_Witness ==
    /\ config = ConfigB
    /\ \A i \in DOMAIN matrix : matrix[i].release # "f31"
    /\ \E w \in DOMAIN wk : wk[w].pc = "published"
    /\ "f31" \in DOMAIN published
    /\ LockFree
    /\ DataRoute("f31").status = "200"
    /\ Indexed("f31")

====
